---- MODULE Spec2Model ----
(***************************************************************************)
(* LoRaCloud geolocation integration                                       *)
(* (internal/integration/loracloud/loracloud.go).                          *)
(*                                                                         *)
(* One HandleUplinkEvent call is a process that walks through its I/O      *)
(* points: buffer read, buffer save, resolver request, resolver response,  *)
(* sink call.  The configuration is captured at construction (Init).      *)
(***************************************************************************)
EXTENDS Integers, Sequences, FiniteSets, TLC

(***************************************************************************)
(* Bounds of the model.                                                    *)
(***************************************************************************)
\* largest geolocationMinBufferSize tried
MaxMinBufferSize == 2
\* an uplink is only delivered while the device's buffer holds fewer frames
MaxBufferLen == 2
\* largest geolocationBufferTTL tried (in clock ticks)
MaxTTL == 1

(***************************************************************************)
(* Option values: Go's nil pointer / nil slice versus a value.             *)
(***************************************************************************)
None == <<>>
Some(x) == <<x>>

(***************************************************************************)
(* Uplink receptions and frames (gw.UplinkRXInfo).  A reception keeps its  *)
(* uplink id and whether it carries a plain fine-timestamp.                *)
(***************************************************************************)
RXInfo(k, fts) ==
    [j \in 1..Len(fts) |-> [uplink_id |-> 10 * k + j, fine_timestamp |-> fts[j]]]

\* the rx_info of the uplinks delivered: four gateways of which the second
\* has no fine-timestamp, three gateways of which the last has none, and two
\* gateways.
RxInfos ==
    { RXInfo(1, <<TRUE, FALSE, TRUE, TRUE>>),
      RXInfo(2, <<TRUE, TRUE, FALSE>>),
      RXInfo(3, <<TRUE, TRUE>>) }

\* f_cnt of the uplink that carries the given rx_info (leading digit of its
\* uplink ids); never 0 here, so that an unset f_cnt shows.
FCntOf(rxInfo) == rxInfo[1].uplink_id \div 10

(***************************************************************************)
(* base64 text is a sequence of sextets 0..63; any other value stands for  *)
(* a character outside the alphabet.  (Padding is not modelled: all texts  *)
(* used have a length that is a multiple of four or are invalid.)          *)
(***************************************************************************)
RECURSIVE B64Bytes(_)
B64Bytes(s) ==
    IF Len(s) < 4 THEN <<>>
    ELSE << (s[1] * 4 + s[2] \div 16) % 256,
            ((s[2] % 16) * 16 + s[3] \div 4) % 256,
            ((s[3] % 4) * 64 + s[4]) % 256 >> \o B64Bytes(SubSeq(s, 5, Len(s)))

\* base64.StdEncoding.DecodeString
B64Decode(s) ==
    IF Len(s) % 4 # 0 \/ \E i \in 1..Len(s) : s[i] \notin 0..63
    THEN [err |-> TRUE, bytes |-> <<>>]
    ELSE [err |-> FALSE, bytes |-> B64Bytes(s)]

\* "AQID": bytes 01 02 03
B64_AQID == <<0, 16, 8, 3>>
\* "AQEBAQEB": bytes 01 01 01 01 01 01
B64_MAC1 == <<0, 16, 4, 1, 0, 16, 4, 1>>
\* "AgICAgIC": bytes 02 02 02 02 02 02
B64_MAC2 == <<0, 32, 8, 2, 0, 32, 8, 2>>
\* "AQI": not a multiple of four characters
B64_Bad == <<0, 16, 8>>

(***************************************************************************)
(* JSON values of the decoded object.                                      *)
(***************************************************************************)
JAbsent == [t |-> "absent", str |-> <<>>, items |-> <<>>]
JString(s) == [t |-> "string", str |-> s, items |-> <<>>]
JNumber == [t |-> "number", str |-> <<>>, items |-> <<>>]
JArray(items) == [t |-> "array", str |-> <<>>, items |-> items]

\* one element of the access-point list: a JSON object with macAddress and
\* signalStrength members, or a value that is not an object
JAccessPoint(mac, ss) ==
    [isObject |-> TRUE, macIsString |-> TRUE, macAddress |-> mac,
     ssIsNumber |-> TRUE, signalStrength |-> ss]
JNotAnObject ==
    [isObject |-> FALSE, macIsString |-> FALSE, macAddress |-> <<>>,
     ssIsNumber |-> FALSE, signalStrength |-> 0]

GNSSField == "lr1110_gnss"
WifiField == "wifi_aps"
FieldNames == {GNSSField, WifiField}

\* the text of object_json: the empty string, text that is not JSON, or a
\* JSON object (given by its members)
JsonEmpty == [text |-> "empty", members |-> [f \in FieldNames |-> JAbsent]]
JsonMalformed == [text |-> "malformed", members |-> [f \in FieldNames |-> JAbsent]]
JsonObject(gnss, wifi) ==
    [text |-> "object",
     members |-> [f \in FieldNames |-> IF f = GNSSField THEN gnss ELSE wifi]]

WifiAPs == JArray(<<JAccessPoint(B64_MAC1, -10), JAccessPoint(B64_MAC2, -20)>>)

ObjectJsons ==
    { JsonEmpty,
      JsonMalformed,
      JsonObject(JAbsent, JAbsent),
      JsonObject(JString(B64_AQID), JAbsent),
      JsonObject(JAbsent, WifiAPs),
      JsonObject(JString(B64_AQID), WifiAPs),
      JsonObject(JNumber, WifiAPs),
      JsonObject(JString(B64_Bad), JAbsent),
      JsonObject(JString(<<>>), JArray(<<>>)),
      JsonObject(JAbsent, JArray(<<JNotAnObject>>)) }

(***************************************************************************)
(* Object extractors.                                                      *)
(***************************************************************************)
\* variant: a missing field is an error
getBytesFromJSONObjectFieldRequired(field, jsonStr) ==
    IF jsonStr.text = "empty" THEN [err |-> FALSE, bytes |-> <<>>]
    ELSE IF jsonStr.text = "malformed" THEN [err |-> TRUE, bytes |-> <<>>]
    ELSE LET vv == jsonStr.members[field] IN
         IF vv.t # "string" THEN [err |-> TRUE, bytes |-> <<>>]
         ELSE B64Decode(vv.str)

\* getBytesFromJSONObject: [err, bytes]
getBytesFromJSONObject(field, jsonStr) ==
    IF jsonStr.text = "empty" THEN [err |-> FALSE, bytes |-> <<>>]
    ELSE IF jsonStr.text = "malformed" THEN [err |-> TRUE, bytes |-> <<>>]
    ELSE LET vv == jsonStr.members[field] IN
         IF vv.t = "absent" THEN [err |-> FALSE, bytes |-> <<>>]
         ELSE IF vv.t # "string" THEN [err |-> TRUE, bytes |-> <<>>]
         ELSE B64Decode(vv.str)

\* the loop over the list of getWifiAccessPointsFromJSONObject
RECURSIVE wifiAccessPoints(_, _)
wifiAccessPoints(aps, i) ==
    IF i > Len(aps) THEN [err |-> FALSE, aps |-> <<>>]
    ELSE IF ~aps[i].isObject \/ ~aps[i].macIsString THEN [err |-> TRUE, aps |-> <<>>]
    ELSE LET b == B64Decode(aps[i].macAddress) IN
         IF b.err \/ ~aps[i].ssIsNumber THEN [err |-> TRUE, aps |-> <<>>]
         ELSE LET rest == wifiAccessPoints(aps, i + 1) IN
              IF rest.err THEN rest
              ELSE [err |-> FALSE,
                    aps |-> <<[mac_address |-> b.bytes,
                               signal_strength |-> aps[i].signalStrength]>> \o rest.aps]

\* getWifiAccessPointsFromJSONObject: [err, aps]
getWifiAccessPointsFromJSONObject(field, jsonStr) ==
    IF jsonStr.text = "empty" THEN [err |-> FALSE, aps |-> <<>>]
    ELSE IF jsonStr.text = "malformed" THEN [err |-> TRUE, aps |-> <<>>]
    ELSE LET vv == jsonStr.members[field] IN
         IF vv.t = "absent" THEN [err |-> FALSE, aps |-> <<>>]
         ELSE IF vv.t # "array" THEN [err |-> TRUE, aps |-> <<>>]
         ELSE wifiAccessPoints(vv.items, 1)

(***************************************************************************)
(* Metadata filter.                                                        *)
(***************************************************************************)
\* inner loop of filterOnFineTimestamp: the receptions j.. of one frame that
\* carry a fine-timestamp
RECURSIVE fineTimestamped(_, _)
fineTimestamped(frame, j) ==
    IF j > Len(frame) THEN <<>>
    ELSE (IF frame[j].fine_timestamp THEN <<frame[j]>> ELSE <<>>)
         \o fineTimestamped(frame, j + 1)

RECURSIVE filterFrom(_, _, _)
filterFrom(geolocBuffer, minPerFrame, i) ==
    IF i > Len(geolocBuffer) THEN <<>>
    ELSE LET f == fineTimestamped(geolocBuffer[i], 1) IN
         (IF Len(f) >= minPerFrame THEN <<f>> ELSE <<>>)
         \o filterFrom(geolocBuffer, minPerFrame, i + 1)

\* variant: the frames with enough fine-timestamps are kept whole
RECURSIVE wholeFramesFrom(_, _, _)
wholeFramesFrom(geolocBuffer, minPerFrame, i) ==
    IF i > Len(geolocBuffer) THEN <<>>
    ELSE (IF Len(fineTimestamped(geolocBuffer[i], 1)) >= minPerFrame
          THEN <<geolocBuffer[i]>> ELSE <<>>)
         \o wholeFramesFrom(geolocBuffer, minPerFrame, i + 1)

filterOnFineTimestampWholeFrames(geolocBuffer, minPerFrame) ==
    wholeFramesFrom(geolocBuffer, minPerFrame, 1)

\* variant: a frame is dropped by the number of all its receptions
RECURSIVE countAllFrom(_, _, _)
countAllFrom(geolocBuffer, minPerFrame, i) ==
    IF i > Len(geolocBuffer) THEN <<>>
    ELSE (IF Len(geolocBuffer[i]) >= minPerFrame
          THEN <<fineTimestamped(geolocBuffer[i], 1)>> ELSE <<>>)
         \o countAllFrom(geolocBuffer, minPerFrame, i + 1)

filterOnFineTimestampCountsAll(geolocBuffer, minPerFrame) ==
    countAllFrom(geolocBuffer, minPerFrame, 1)

filterOnFineTimestamp(geolocBuffer, minPerFrame) ==
    filterFrom(geolocBuffer, minPerFrame, 1)

\* the uplink-id loops of geolocation: ids of all receptions of all frames
RECURSIVE collectUplinkIDs(_, _)
collectUplinkIDs(frames, i) ==
    IF i > Len(frames) THEN <<>>
    ELSE [j \in 1..Len(frames[i]) |-> frames[i][j].uplink_id]
         \o collectUplinkIDs(frames, i + 1)

(***************************************************************************)
(* Resolver client (client/geolocation) and the four strategy methods.     *)
(***************************************************************************)
ResolverOutcomes == {"located", "no_location", "error"}

ZeroLocation == [source |-> "UNKNOWN", accuracy |-> 0]

\* the source tag the client puts on a location it parsed from the response
\* of the given endpoint
ClientSource(endpoint) ==
    CASE endpoint \in {"v2_tdoa_single", "v2_tdoa_multi"} -> "GEO_RESOLVER_TDOA"
      [] endpoint \in {"v2_rssi_single", "v2_rssi_multi"} -> "GEO_RESOLVER_RSSI"
      [] endpoint = "v3_gnss_rl1110_single" -> "GEO_RESOLVER_GNSS"
      [] endpoint = "v2_wifi_tdoa_single" -> "GEO_RESOLVER_WIFI"

\* what a client method returns: (Location, nil), (zero, ErrNoLocation) or
\* (zero, some other error)
ClientResult(endpoint, outcome) ==
    CASE outcome = "located" ->
             [loc |-> [source |-> ClientSource(endpoint), accuracy |-> 10],
              err |-> "nil"]
      [] outcome = "no_location" -> [loc |-> ZeroLocation, err |-> "ErrNoLocation"]
      [] outcome = "error" -> [loc |-> ZeroLocation, err |-> "api error"]

NoRequest ==
    [endpoint |-> "none", lorawan |-> <<>>, payload |-> <<>>,
     wifi_access_points |-> <<>>]

\* tdoaGeolocation, the request: single-frame or multi-frame
tdoaRequest(geolocBuffer) ==
    IF Len(geolocBuffer) = 1
    THEN [NoRequest EXCEPT !.endpoint = "v2_tdoa_single",
                           !.lorawan = <<geolocBuffer[1]>>]
    ELSE [NoRequest EXCEPT !.endpoint = "v2_tdoa_multi", !.lorawan = geolocBuffer]

\* tdoaGeolocation, the result: (loc, err) from the client's (loc, err)
tdoaGeolocation(r) ==
    IF r.err # "nil"
    THEN IF r.err = "ErrNoLocation" THEN [loc |-> None, err |-> "nil"]
         ELSE [loc |-> None, err |-> "geolocation error"]
    ELSE [loc |-> Some(r.loc), err |-> "nil"]

rssiRequest(geolocBuffer) ==
    IF Len(geolocBuffer) = 1
    THEN [NoRequest EXCEPT !.endpoint = "v2_rssi_single",
                           !.lorawan = <<geolocBuffer[1]>>]
    ELSE [NoRequest EXCEPT !.endpoint = "v2_rssi_multi", !.lorawan = geolocBuffer]

rssiGeolocation(r) ==
    IF r.err # "nil"
    THEN IF r.err = "ErrNoLocation" THEN [loc |-> None, err |-> "nil"]
         ELSE [loc |-> None, err |-> "geolocation error"]
    ELSE [loc |-> Some(r.loc), err |-> "nil"]

gnssRequest(rxInfo, pl) ==
    [NoRequest EXCEPT !.endpoint = "v3_gnss_rl1110_single",
                      !.lorawan = <<rxInfo>>, !.payload = pl]

gnssLR1110Geolocation(r) ==
    IF r.err # "nil"
    THEN IF r.err = "ErrNoLocation" THEN [loc |-> None, err |-> "nil"]
         ELSE [loc |-> None, err |-> "geolocation error"]
    ELSE [loc |-> Some(r.loc), err |-> "nil"]

wifiRequest(rxInfo, aps) ==
    [NoRequest EXCEPT !.endpoint = "v2_wifi_tdoa_single",
                      !.lorawan = <<rxInfo>>, !.wifi_access_points = aps]

\* variant: ErrNoLocation is not told apart from the other results
wifiTDOAGeolocationNoSentinel(r) == [loc |-> Some(r.loc), err |-> "nil"]

\* wifiTDOAGeolocation: an error other than ErrNoLocation is not returned;
\* control falls through to "return &loc, nil"
wifiTDOAGeolocation(r) ==
    IF r.err # "nil" /\ r.err = "ErrNoLocation"
    THEN [loc |-> None, err |-> "nil"]
    ELSE [loc |-> Some(r.loc), err |-> "nil"]

\* the strategy method that handles the response of a request
strategyResult(endpoint, r) ==
    CASE endpoint \in {"v2_tdoa_single", "v2_tdoa_multi"} -> tdoaGeolocation(r)
      [] endpoint \in {"v2_rssi_single", "v2_rssi_multi"} -> rssiGeolocation(r)
      [] endpoint = "v3_gnss_rl1110_single" -> gnssLR1110Geolocation(r)
      [] endpoint = "v2_wifi_tdoa_single" -> wifiTDOAGeolocation(r)

(***************************************************************************)
(* Resolver orchestrator: Integration.geolocation.  The four blocks of the *)
(* method are its stages, in program order.                                *)
(***************************************************************************)
Stages == <<"gnss", "wifi", "tdoa", "rssi">>

Check(act, req, uplinkIDs) == [act |-> act, req |-> req, uplinkIDs |-> uplinkIDs]

\* "if i.config.GeolocationGNSS { ... }"
gnssStage(config, pl) ==
    IF config.GeolocationGNSS
    THEN LET gnssPL == getBytesFromJSONObject(config.GeolocationGNSSPayloadField,
                                              pl.object_json) IN
         IF gnssPL.err THEN Check("abort", NoRequest, <<>>)
         ELSE IF Len(gnssPL.bytes) = 0 THEN Check("next", NoRequest, <<>>)
         ELSE Check("request", gnssRequest(pl.rx_info, gnssPL.bytes), <<>>)
    ELSE Check("next", NoRequest, <<>>)

\* "if i.config.GeolocationWifi { ... }"
wifiStage(config, pl) ==
    IF config.GeolocationWifi
    THEN LET wifiAPs == getWifiAccessPointsFromJSONObject(
                            config.GeolocationWifiPayloadField, pl.object_json) IN
         IF wifiAPs.err THEN Check("abort", NoRequest, <<>>)
         ELSE IF Len(wifiAPs.aps) = 0 THEN Check("next", NoRequest, <<>>)
         ELSE Check("request", wifiRequest(pl.rx_info, wifiAPs.aps), <<>>)
    ELSE Check("next", NoRequest, <<>>)

\* variant: the uplink ids are collected from the unfiltered buffer
tdoaStageIdsOfBuffer(config, geolocBuffer) ==
    IF config.GeolocationTDOA
    THEN LET tdoaFiltered == filterOnFineTimestamp(geolocBuffer, 3) IN
         IF Len(tdoaFiltered) = 0
            \/ Len(tdoaFiltered) < config.GeolocationMinBufferSize
         THEN Check("next", NoRequest, <<>>)
         ELSE Check("request", tdoaRequest(tdoaFiltered),
                    collectUplinkIDs(geolocBuffer, 1))
    ELSE Check("next", NoRequest, <<>>)

\* variant: the shape of the TDOA request follows the length of the
\* unfiltered buffer
tdoaStageShapeOfBuffer(config, geolocBuffer) ==
    IF config.GeolocationTDOA
    THEN LET tdoaFiltered == filterOnFineTimestamp(geolocBuffer, 3) IN
         IF Len(tdoaFiltered) = 0
            \/ Len(tdoaFiltered) < config.GeolocationMinBufferSize
         THEN Check("next", NoRequest, <<>>)
         ELSE Check("request",
                    [NoRequest EXCEPT
                        !.endpoint = IF Len(geolocBuffer) = 1
                                     THEN "v2_tdoa_single" ELSE "v2_tdoa_multi",
                        !.lorawan = tdoaFiltered],
                    collectUplinkIDs(tdoaFiltered, 1))
    ELSE Check("next", NoRequest, <<>>)

\* "if i.config.GeolocationTDOA { ... }"
tdoaStage(config, geolocBuffer) ==
    IF config.GeolocationTDOA
    THEN LET tdoaFiltered == filterOnFineTimestamp(geolocBuffer, 3) IN
         IF Len(tdoaFiltered) = 0
            \/ Len(tdoaFiltered) < config.GeolocationMinBufferSize
         THEN Check("next", NoRequest, <<>>)
         ELSE Check("request", tdoaRequest(tdoaFiltered),
                    collectUplinkIDs(tdoaFiltered, 1))
    ELSE Check("next", NoRequest, <<>>)

\* variant: the minimum buffer size is not looked at
rssiStageNoMinimum(config, geolocBuffer) ==
    IF config.GeolocationRSSI
    THEN IF Len(geolocBuffer) = 0
         THEN Check("next", NoRequest, <<>>)
         ELSE Check("request", rssiRequest(geolocBuffer),
                    collectUplinkIDs(geolocBuffer, 1))
    ELSE Check("next", NoRequest, <<>>)

\* "if i.config.GeolocationRSSI { ... }"
rssiStage(config, geolocBuffer) ==
    IF config.GeolocationRSSI
    THEN IF Len(geolocBuffer) = 0
            \/ Len(geolocBuffer) < config.GeolocationMinBufferSize
         THEN Check("next", NoRequest, <<>>)
         ELSE Check("request", rssiRequest(geolocBuffer),
                    collectUplinkIDs(geolocBuffer, 1))
    ELSE Check("next", NoRequest, <<>>)

\* variant: TDOA and RSSI are tried only for an uplink that was buffered
stageCheckOfBufferedUplink(s, config, geolocBuffer, pl) ==
    CASE Stages[s] = "gnss" -> gnssStage(config, pl)
      [] Stages[s] = "wifi" -> wifiStage(config, pl)
      [] Stages[s] = "tdoa" ->
            IF Len(filterOnFineTimestamp(<<pl.rx_info>>, 3)) = 0
            THEN Check("next", NoRequest, <<>>)
            ELSE tdoaStage(config, geolocBuffer)
      [] Stages[s] = "rssi" ->
            IF Len(pl.rx_info) < 3 THEN Check("next", NoRequest, <<>>)
            ELSE rssiStage(config, geolocBuffer)

stageCheck(s, config, geolocBuffer, pl) ==
    CASE Stages[s] = "gnss" -> gnssStage(config, pl)
      [] Stages[s] = "wifi" -> wifiStage(config, pl)
      [] Stages[s] = "tdoa" -> tdoaStage(config, geolocBuffer)
      [] Stages[s] = "rssi" -> rssiStage(config, geolocBuffer)

\* geolocation run from stage s up to its first resolver request or its
\* return without one.  reached: the stages control arrived at.
RECURSIVE geolocationFrom(_, _, _, _)
geolocationFrom(s, config, geolocBuffer, pl) ==
    IF s > Len(Stages)
    THEN [act |-> "return", stage |-> s, reached |-> {}, req |-> NoRequest,
          uplinkIDs |-> <<>>]
    ELSE LET c == stageCheck(s, config, geolocBuffer, pl) IN
         IF c.act = "next"
         THEN LET r == geolocationFrom(s + 1, config, geolocBuffer, pl) IN
              [r EXCEPT !.reached = @ \cup {Stages[s]}]
         ELSE [act |-> c.act, stage |-> s, reached |-> {Stages[s]}, req |-> c.req,
               uplinkIDs |-> c.uplinkIDs]

\* variant: a strategy that found no location falls through to the next one
attemptReturnsUnlessNoLocation(loc, err) == loc # None \/ err # "nil"

\* variant: a strategy that failed falls through to the next one
attemptReturnsUnlessError(loc, err) == err = "nil"

\* "return uplinkIDs, loc, err" right after each strategy call: whatever the
\* strategy produced ends geolocation
attemptReturns(loc, err) == TRUE

(***************************************************************************)
(* State.                                                                  *)
(***************************************************************************)
Devices == {"dev_a", "dev_b"}
Procs == {1, 2}

VARIABLES
    config,   \* Integration.config, fixed at New()
    store,    \* the key-value store: per device the frames and their lifetime
    call      \* per process: the HandleUplinkEvent call it runs

vars == <<config, store, call>>

Configs ==
    [Geolocation : BOOLEAN,
     GeolocationBufferTTL : 0..MaxTTL,
     GeolocationMinBufferSize : 0..MaxMinBufferSize,
     GeolocationTDOA : BOOLEAN,
     GeolocationRSSI : BOOLEAN,
     GeolocationGNSS : BOOLEAN,
     GeolocationGNSSPayloadField : {GNSSField},
     GeolocationWifi : BOOLEAN,
     GeolocationWifiPayloadField : {WifiField}]

\* no entry for the device; expired tells (for the properties only) that the
\* last entry of the device was destroyed by the expiry of its lifetime
\* age counts, for the properties only, the units of time an entry has lived
\* since it was created (SpecAlive counts it, elsewhere it stays 0)
NoEntry == [frames |-> <<>>, ttl |-> 0, expired |-> FALSE, age |-> 0]
ExpiredEntry == [NoEntry EXCEPT !.expired = TRUE]

\* the identity fields of an uplink of device d: application and device
\* names as configured, and tags that differ from one uplink to the next
IdentityOf(d, rx) ==
    [application_id |-> 1, application_name |-> "test-app",
     device_name |-> "test-device", tags |-> {<<"uplink", FCntOf(rx)>>}]

NoUplink ==
    [dev_eui |-> "none", f_cnt |-> 0, rx_info |-> <<>>, object_json |-> JsonEmpty,
     identity |-> [application_id |-> 0, application_name |-> "",
                   device_name |-> "", tags |-> {}]]

IdleCall ==
    [pc |-> "idle", pl |-> NoUplink, bufferRead |-> <<>>, geolocBuffer |-> <<>>,
     stage |-> 0, reached |-> {}, aborted |-> FALSE,
     requests |-> <<>>, responses |-> <<>>,
     uplinkIDs |-> <<>>, loc |-> None, err |-> "nil",
     events |-> <<>>, io |-> <<>>, ret |-> "none", extended |-> FALSE,
     storeFailed |-> FALSE, handler |-> "none"]

Init ==
    /\ config \in Configs
    /\ store = [d \in Devices |-> NoEntry]
    /\ call = [p \in Procs |-> IdleCall]

(***************************************************************************)
(* Geolocation buffer store.                                               *)
(***************************************************************************)
\* GetGeolocBuffer: the frames of the device's entry, empty when there is none
GetGeolocBuffer(st, devEUI, ttl) == st[devEUI].frames

\* variant: frames saved with a lifetime of 0 are kept, and never expire
SaveGeolocBufferKeepsWithoutTTL(st, devEUI, items, ttl) ==
    IF Len(items) = 0 THEN st
    ELSE [st EXCEPT ![devEUI] =
             [frames |-> items, ttl |-> ttl, expired |-> FALSE,
              age |-> st[devEUI].age]]

\* variant: the lifetime of an entry that exists is left as it is
SaveGeolocBufferKeepsLifetime(st, devEUI, items, ttl) ==
    IF Len(items) = 0 THEN st
    ELSE IF ttl = 0 THEN [st EXCEPT ![devEUI] = NoEntry]
    ELSE [st EXCEPT ![devEUI] =
             [frames |-> items,
              ttl |-> IF st[devEUI].ttl > 0 THEN st[devEUI].ttl ELSE ttl,
              expired |-> FALSE, age |-> st[devEUI].age]]

\* SaveGeolocBuffer: writes the frames and sets the lifetime of the entry;
\* saving no frames is a no-op; an entry with lifetime 0 is gone at once
SaveGeolocBuffer(st, devEUI, items, ttl) ==
    IF Len(items) = 0 THEN st
    ELSE IF ttl = 0 THEN [st EXCEPT ![devEUI] = NoEntry]
    ELSE [st EXCEPT ![devEUI] =
             [frames |-> items, ttl |-> ttl, expired |-> FALSE,
              age |-> st[devEUI].age]]

\* variant: the frames of an entry outlive its lifetime
ExpireKeepsFrames(st) ==
    [d \in Devices |->
        IF st[d].ttl = 0 THEN st[d]
        ELSE IF st[d].ttl = 1 THEN [st[d] EXCEPT !.ttl = 0, !.expired = TRUE]
        ELSE [st[d] EXCEPT !.ttl = @ - 1]]

\* one unit of time passes: every entry loses one unit of lifetime
Expire(st) ==
    [d \in Devices |->
        IF st[d].ttl = 0 THEN st[d]
        ELSE IF st[d].ttl = 1 THEN ExpiredEntry
        ELSE [st[d] EXCEPT !.ttl = @ - 1]]

(***************************************************************************)
(* HandleUplinkEvent, step by step.                                        *)
(***************************************************************************)
Returned(c, ret) == [c EXCEPT !.pc = "done", !.ret = ret]

\* variant: the handler does not look at config.Geolocation
UplinkWhateverGeolocation(p, d, rxInfos, objectJsons) ==
    /\ call[p].pc \in {"idle", "done"}
    /\ Len(store[d].frames) < MaxBufferLen
    /\ \E rx \in rxInfos, obj \in objectJsons :
         LET pl == [dev_eui |-> d, f_cnt |-> FCntOf(rx), rx_info |-> rx,
                    object_json |-> obj, identity |-> IdentityOf(d, rx)]
         IN call' = [call EXCEPT ![p] = [IdleCall EXCEPT !.pl = pl, !.pc = "read"]]
    /\ UNCHANGED <<config, store>>

\* the dispatcher calls HandleUplinkEvent(pl); with geolocation disabled the
\* call returns nil at once
UplinkOf(p, d, rxInfos, objectJsons) ==
    /\ call[p].pc \in {"idle", "done"}
    /\ Len(store[d].frames) < MaxBufferLen
    /\ \E rx \in rxInfos, obj \in objectJsons :
         LET pl == [dev_eui |-> d, f_cnt |-> FCntOf(rx), rx_info |-> rx,
                    object_json |-> obj, identity |-> IdentityOf(d, rx)]
             c == [IdleCall EXCEPT !.pl = pl]
         IN call' = [call EXCEPT ![p] =
                        IF config.Geolocation THEN [c EXCEPT !.pc = "read"]
                        ELSE Returned(c, "nil")]
    /\ UNCHANGED <<config, store>>

Uplink(p, d) == UplinkOf(p, d, RxInfos, ObjectJsons)

\* variant: the buffer is read under one key for all devices
ReadBufferOfOneKey(p) ==
    /\ call[p].pc = "read"
    /\ Len(store[call[p].pl.dev_eui].frames) < MaxBufferLen
    /\ Len(store["dev_a"].frames) < MaxBufferLen
    /\ LET c == call[p]
           got == GetGeolocBuffer(store, "dev_a", config.GeolocationBufferTTL)
           buf == IF Len(c.pl.rx_info) >= 3 THEN Append(got, c.pl.rx_info) ELSE got
           c1 == [c EXCEPT !.bufferRead = got, !.geolocBuffer = buf,
                           !.io = Append(@, "get")]
       IN call' = [call EXCEPT ![p] =
                      [c1 EXCEPT !.pc = IF Len(buf) # 0 THEN "save" ELSE "geoloc"]]
    /\ UNCHANGED <<config, store>>

\* variant: a frame received by 2 gateways is appended as well
ReadBufferAppendsShortFrames(p) ==
    /\ call[p].pc = "read"
    /\ Len(store[call[p].pl.dev_eui].frames) < MaxBufferLen
    /\ LET c == call[p]
           got == GetGeolocBuffer(store, c.pl.dev_eui, config.GeolocationBufferTTL)
           buf == IF Len(c.pl.rx_info) >= 2 THEN Append(got, c.pl.rx_info) ELSE got
           c1 == [c EXCEPT !.bufferRead = got, !.geolocBuffer = buf,
                           !.io = Append(@, "get")]
       IN call' = [call EXCEPT ![p] =
                      [c1 EXCEPT !.pc = IF Len(buf) # 0 THEN "save" ELSE "geoloc"]]
    /\ UNCHANGED <<config, store>>

\* variant: the frame is appended whatever its number of receptions
ReadBufferAppendsEveryFrame(p) ==
    /\ call[p].pc = "read"
    /\ Len(store[call[p].pl.dev_eui].frames) < MaxBufferLen
    /\ LET c == call[p]
           got == GetGeolocBuffer(store, c.pl.dev_eui, config.GeolocationBufferTTL)
           buf == Append(got, c.pl.rx_info)
           c1 == [c EXCEPT !.bufferRead = got, !.geolocBuffer = buf,
                           !.io = Append(@, "get")]
       IN call' = [call EXCEPT ![p] = [c1 EXCEPT !.pc = "save"]]
    /\ UNCHANGED <<config, store>>

\* variant: the buffer is saved whether it is empty or not
ReadBufferAlwaysSaves(p) ==
    /\ call[p].pc = "read"
    /\ Len(store[call[p].pl.dev_eui].frames) < MaxBufferLen
    /\ LET c == call[p]
           got == GetGeolocBuffer(store, c.pl.dev_eui, config.GeolocationBufferTTL)
           buf == IF Len(c.pl.rx_info) >= 3 THEN Append(got, c.pl.rx_info) ELSE got
       IN call' = [call EXCEPT ![p] =
                      [c EXCEPT !.bufferRead = got, !.geolocBuffer = buf,
                                !.io = Append(@, "get"), !.pc = "save"]]
    /\ UNCHANGED <<config, store>>

\* variant: the frame is put in front of the buffer read
ReadBufferPrepends(p) ==
    /\ call[p].pc = "read"
    /\ Len(store[call[p].pl.dev_eui].frames) < MaxBufferLen
    /\ LET c == call[p]
           got == GetGeolocBuffer(store, c.pl.dev_eui, config.GeolocationBufferTTL)
           buf == IF Len(c.pl.rx_info) >= 3 THEN <<c.pl.rx_info>> \o got ELSE got
           c1 == [c EXCEPT !.bufferRead = got, !.geolocBuffer = buf,
                           !.io = Append(@, "get")]
       IN call' = [call EXCEPT ![p] =
                      [c1 EXCEPT !.pc = IF Len(buf) # 0 THEN "save" ELSE "geoloc"]]
    /\ UNCHANGED <<config, store>>

\* variant: the buffer is not saved before geolocation runs
ReadBufferSkipsSave(p) ==
    /\ call[p].pc = "read"
    /\ Len(store[call[p].pl.dev_eui].frames) < MaxBufferLen
    /\ LET c == call[p]
           got == GetGeolocBuffer(store, c.pl.dev_eui, config.GeolocationBufferTTL)
           buf == IF Len(c.pl.rx_info) >= 3 THEN Append(got, c.pl.rx_info) ELSE got
       IN call' = [call EXCEPT ![p] =
                      [c EXCEPT !.bufferRead = got, !.geolocBuffer = buf,
                                !.io = Append(@, "get"), !.pc = "geoloc"]]
    /\ UNCHANGED <<config, store>>

\* variant: a frame that is in the buffer already is not appended again
ReadBufferAppendsOnce(p) ==
    /\ call[p].pc = "read"
    /\ Len(store[call[p].pl.dev_eui].frames) < MaxBufferLen
    /\ LET c == call[p]
           got == GetGeolocBuffer(store, c.pl.dev_eui, config.GeolocationBufferTTL)
           buf == IF Len(c.pl.rx_info) >= 3
                     /\ \A i \in 1..Len(got) : got[i] # c.pl.rx_info
                  THEN Append(got, c.pl.rx_info) ELSE got
           c1 == [c EXCEPT !.bufferRead = got, !.geolocBuffer = buf,
                           !.io = Append(@, "get")]
       IN call' = [call EXCEPT ![p] =
                      [c1 EXCEPT !.pc = IF Len(buf) # 0 THEN "save" ELSE "geoloc"]]
    /\ UNCHANGED <<config, store>>

\* variant: a buffer is saved only by an uplink that adds a frame
ReadBufferSavesOwnFrameOnly(p) ==
    /\ call[p].pc = "read"
    /\ Len(store[call[p].pl.dev_eui].frames) < MaxBufferLen
    /\ LET c == call[p]
           got == GetGeolocBuffer(store, c.pl.dev_eui, config.GeolocationBufferTTL)
           buf == IF Len(c.pl.rx_info) >= 3 THEN Append(got, c.pl.rx_info) ELSE got
           c1 == [c EXCEPT !.bufferRead = got, !.geolocBuffer = buf,
                           !.io = Append(@, "get")]
       IN call' = [call EXCEPT ![p] =
                      [c1 EXCEPT !.pc = IF Len(c.pl.rx_info) >= 3
                                        THEN "save" ELSE "geoloc"]]
    /\ UNCHANGED <<config, store>>

\* updateGeolocBuffer, first half: read the buffer and append the frame when
\* it was received by at least 3 gateways (the buffer read is kept below
\* MaxBufferLen frames)
ReadBuffer(p) ==
    /\ call[p].pc = "read"
    /\ Len(store[call[p].pl.dev_eui].frames) < MaxBufferLen
    /\ LET c == call[p]
           got == GetGeolocBuffer(store, c.pl.dev_eui, config.GeolocationBufferTTL)
           buf == IF Len(c.pl.rx_info) >= 3 THEN Append(got, c.pl.rx_info) ELSE got
           c1 == [c EXCEPT !.bufferRead = got, !.geolocBuffer = buf,
                           !.io = Append(@, "get")]
       IN call' = [call EXCEPT ![p] =
                      [c1 EXCEPT !.pc = IF Len(buf) # 0 THEN "save" ELSE "geoloc"]]
    /\ UNCHANGED <<config, store>>

\* variant: the error of GetGeolocBuffer is dropped and the call goes on with
\* an empty buffer
ReadBufferFailsUnnoticed(p) ==
    /\ call[p].pc = "read"
    /\ call' = [call EXCEPT ![p] =
                   [call[p] EXCEPT !.io = Append(@, "get"), !.storeFailed = TRUE,
                                   !.pc = "geoloc"]]
    /\ UNCHANGED <<config, store>>

\* GetGeolocBuffer fails (storeFailed records it, for the properties only)
ReadBufferFails(p) ==
    /\ call[p].pc = "read"
    /\ call' = [call EXCEPT ![p] =
                   Returned([call[p] EXCEPT !.io = Append(@, "get"),
                                            !.storeFailed = TRUE], "error")]
    /\ UNCHANGED <<config, store>>

\* variant: the save writes the frames now in the store followed by the frame
\* of the call, instead of the buffer of the call
SaveBufferOnCurrentStore(p) ==
    /\ call[p].pc = "save"
    /\ LET c == call[p]
           now == store[c.pl.dev_eui].frames
           buf == IF Len(c.pl.rx_info) >= 3 THEN Append(now, c.pl.rx_info) ELSE now
       IN store' = SaveGeolocBuffer(store, c.pl.dev_eui, buf,
                                    config.GeolocationBufferTTL)
    /\ call' = [call EXCEPT ![p] =
                   [call[p] EXCEPT !.pc = "geoloc", !.io = Append(@, "save")]]
    /\ UNCHANGED config

\* the entry of the device exists and has lost part of the configured lifetime
LifetimeRunning(d) ==
    0 < store[d].ttl /\ store[d].ttl < config.GeolocationBufferTTL

\* variant: the save keeps the newest frame only
SaveBufferKeepsNewest(p) ==
    /\ call[p].pc = "save"
    /\ store' = SaveGeolocBuffer(store, call[p].pl.dev_eui,
                                 <<call[p].geolocBuffer[Len(call[p].geolocBuffer)]>>,
                                 config.GeolocationBufferTTL)
    /\ call' = [call EXCEPT ![p] =
                   [call[p] EXCEPT !.pc = "geoloc", !.io = Append(@, "save"),
                                   !.extended = LifetimeRunning(call[p].pl.dev_eui)]]
    /\ UNCHANGED config

\* variant: a call that finds the entry changed since its read leaves it as
\* it is
SaveBufferUnlessChanged(p) ==
    /\ call[p].pc = "save"
    /\ store' = IF store[call[p].pl.dev_eui].frames = call[p].bufferRead
                THEN SaveGeolocBuffer(store, call[p].pl.dev_eui,
                                      call[p].geolocBuffer,
                                      config.GeolocationBufferTTL)
                ELSE store
    /\ call' = [call EXCEPT ![p] =
                   [call[p] EXCEPT !.pc = "geoloc", !.io = Append(@, "save"),
                                   !.extended = LifetimeRunning(call[p].pl.dev_eui)]]
    /\ UNCHANGED config

\* updateGeolocBuffer, second half: save the buffer (extended records, for the
\* properties only, that the save found an entry whose lifetime was running)
SaveBuffer(p) ==
    /\ call[p].pc = "save"
    /\ store' = SaveGeolocBuffer(store, call[p].pl.dev_eui, call[p].geolocBuffer,
                                 config.GeolocationBufferTTL)
    /\ call' = [call EXCEPT ![p] =
                   [call[p] EXCEPT !.pc = "geoloc", !.io = Append(@, "save"),
                                   !.extended = LifetimeRunning(call[p].pl.dev_eui)]]
    /\ UNCHANGED config

\* SaveGeolocBuffer fails
SaveBufferFails(p) ==
    /\ call[p].pc = "save"
    /\ call' = [call EXCEPT ![p] =
                   Returned([call[p] EXCEPT !.io = Append(@, "save"),
                                            !.storeFailed = TRUE], "error")]
    /\ UNCHANGED <<config, store>>

\* HandleUplinkEvent after geolocation returned (uplinkIDs, loc, err)
afterGeolocation(c) ==
    IF c.err # "nil" THEN Returned(c, "error")
    ELSE IF c.loc # None THEN [c EXCEPT !.pc = "sink"]
    ELSE Returned(c, "nil")

\* variant: the failure of an extractor is returned as the error of geolocation
runGeolocationReturnsExtractError(c, s) ==
    LET g == geolocationFrom(s, config, c.geolocBuffer, c.pl)
        c1 == [c EXCEPT !.stage = g.stage, !.reached = @ \cup g.reached]
    IN IF g.act = "request"
       THEN [c1 EXCEPT !.pc = "resolver", !.requests = Append(@, g.req),
                       !.uplinkIDs = g.uplinkIDs, !.io = Append(@, "request")]
       ELSE afterGeolocation([c1 EXCEPT !.aborted = (g.act = "abort"),
                                        !.uplinkIDs = <<>>, !.loc = None,
                                        !.err = IF g.act = "abort"
                                                THEN "extract error" ELSE "nil"])

\* geolocation runs from stage s to its next resolver request or its return
runGeolocation(c, s) ==
    LET g == geolocationFrom(s, config, c.geolocBuffer, c.pl)
        c1 == [c EXCEPT !.stage = g.stage, !.reached = @ \cup g.reached]
    IN IF g.act = "request"
       THEN [c1 EXCEPT !.pc = "resolver", !.requests = Append(@, g.req),
                       !.uplinkIDs = g.uplinkIDs, !.io = Append(@, "request")]
       ELSE afterGeolocation([c1 EXCEPT !.aborted = (g.act = "abort"),
                                        !.uplinkIDs = <<>>, !.loc = None,
                                        !.err = "nil"])

Geolocation(p) ==
    /\ call[p].pc = "geoloc"
    /\ call' = [call EXCEPT ![p] = runGeolocation(call[p], 1)]
    /\ UNCHANGED <<config, store>>

\* variant: when the resolver gives no location the entry of the device is put
\* back to the frames the call read
ResponseRollsBack(p) ==
    /\ call[p].pc = "resolver"
    /\ \E outcome \in ResolverOutcomes :
         LET c == call[p]
             req == c.requests[Len(c.requests)]
             res == strategyResult(req.endpoint, ClientResult(req.endpoint, outcome))
             c1 == [c EXCEPT !.responses = Append(@, outcome)]
         IN /\ call' = [call EXCEPT ![p] =
                   IF attemptReturns(res.loc, res.err)
                   THEN afterGeolocation([c1 EXCEPT !.loc = res.loc, !.err = res.err])
                   ELSE runGeolocation(c1, c.stage + 1)]
            /\ store' = IF outcome = "located" THEN store
                        ELSE [store EXCEPT ![c.pl.dev_eui].frames = c.bufferRead]
    /\ UNCHANGED config

\* the resolver answers the request of the strategy method
Response(p) ==
    /\ call[p].pc = "resolver"
    /\ \E outcome \in ResolverOutcomes :
         LET c == call[p]
             req == c.requests[Len(c.requests)]
             res == strategyResult(req.endpoint, ClientResult(req.endpoint, outcome))
             c1 == [c EXCEPT !.responses = Append(@, outcome)]
         IN call' = [call EXCEPT ![p] =
                IF attemptReturns(res.loc, res.err)
                THEN afterGeolocation([c1 EXCEPT !.loc = res.loc, !.err = res.err])
                ELSE runGeolocation(c1, c.stage + 1)]
    /\ UNCHANGED <<config, store>>

\* variant: f_cnt is always copied from the uplink
locationEventAlwaysFCnt(pl, uplinkIDs, loc) ==
    [application_id |-> pl.identity.application_id,
     application_name |-> pl.identity.application_name,
     device_name |-> pl.identity.device_name,
     dev_eui |-> pl.dev_eui,
     tags |-> pl.identity.tags,
     location |-> loc,
     uplink_ids |-> uplinkIDs,
     f_cnt |-> pl.f_cnt]

\* variant: the event carries no tags
locationEventWithoutTags(pl, uplinkIDs, loc) ==
    [application_id |-> pl.identity.application_id,
     application_name |-> pl.identity.application_name,
     device_name |-> pl.identity.device_name,
     dev_eui |-> pl.dev_eui,
     tags |-> {},
     location |-> loc,
     uplink_ids |-> uplinkIDs,
     f_cnt |-> IF Len(uplinkIDs) = 0 THEN pl.f_cnt ELSE 0]

\* the LocationEvent HandleUplinkEvent builds
locationEvent(pl, uplinkIDs, loc) ==
    [application_id |-> pl.identity.application_id,
     application_name |-> pl.identity.application_name,
     device_name |-> pl.identity.device_name,
     dev_eui |-> pl.dev_eui,
     tags |-> pl.identity.tags,
     location |-> loc,
     uplink_ids |-> uplinkIDs,
     f_cnt |-> IF Len(uplinkIDs) = 0 THEN pl.f_cnt ELSE 0]

\* variant: the error of ii.HandleLocationEvent is returned
SinkErrorReturned(p) ==
    /\ call[p].pc = "sink"
    /\ \E sinkErr \in BOOLEAN :
         LET c == call[p]
             ev == locationEvent(c.pl, c.uplinkIDs, c.loc[1])
         IN call' = [call EXCEPT ![p] =
                Returned([c EXCEPT !.events = Append(@, [event |-> ev, err |-> sinkErr]),
                                   !.io = Append(@, "sink")],
                         IF sinkErr THEN "error" ELSE "nil")]
    /\ UNCHANGED <<config, store>>

\* variant: a sink call that failed is made again
SinkRetried(p) ==
    /\ call[p].pc = "sink"
    /\ \E sinkErr \in BOOLEAN :
         LET c == call[p]
             ev == locationEvent(c.pl, c.uplinkIDs, c.loc[1])
             c1 == [c EXCEPT !.events = Append(@, [event |-> ev, err |-> sinkErr]),
                             !.io = Append(@, "sink")]
         IN call' = [call EXCEPT ![p] =
                        IF sinkErr /\ Len(c.events) < 2 THEN c1
                        ELSE Returned(c1, "nil")]
    /\ UNCHANGED <<config, store>>

\* ii.HandleLocationEvent: it may fail, which is only logged
Sink(p) ==
    /\ call[p].pc = "sink"
    /\ \E sinkErr \in BOOLEAN :
         LET c == call[p]
             ev == locationEvent(c.pl, c.uplinkIDs, c.loc[1])
         IN call' = [call EXCEPT ![p] =
                Returned([c EXCEPT !.events = Append(@, [event |-> ev, err |-> sinkErr]),
                                   !.io = Append(@, "sink")], "nil")]
    /\ UNCHANGED <<config, store>>

\* time passes
Tick ==
    /\ \E d \in Devices : store[d].ttl > 0
    /\ store' = Expire(store)
    /\ UNCHANGED <<config, call>>

Handle(p, d) ==
    \/ Uplink(p, d)
    \/ ReadBuffer(p)
    \/ ReadBufferFails(p)
    \/ SaveBuffer(p)
    \/ SaveBufferFails(p)
    \/ Geolocation(p)
    \/ Response(p)
    \/ Sink(p)

\* uplinks of one device, handled one at a time
Next == Handle(1, "dev_a") \/ Tick

Spec == Init /\ [][Next]_vars

(***************************************************************************)
(* Concurrent calls: the dispatcher runs two HandleUplinkEvent calls for   *)
(* the same device at a time, their steps interleaved in any order.  The   *)
(* GNSS and WiFi strategies are disabled, TDOA and RSSI are enabled, the   *)
(* uplinks carry no object, and the buffer lifetime is none or one unit of *)
(* time.                                                                   *)
(***************************************************************************)
ConcConfigs ==
    {c \in Configs : /\ c.Geolocation
                     /\ ~c.GeolocationGNSS /\ ~c.GeolocationWifi
                     /\ c.GeolocationTDOA /\ c.GeolocationRSSI
                     /\ c.GeolocationBufferTTL <= 1}

InitConc ==
    /\ config \in ConcConfigs
    /\ store = [d \in Devices |-> NoEntry]
    /\ call = [p \in Procs |-> IdleCall]

HandleConc(p) ==
    \/ UplinkOf(p, "dev_a", RxInfos, {JsonEmpty})
    \/ ReadBuffer(p)
    \/ ReadBufferFails(p)
    \/ SaveBuffer(p)
    \/ SaveBufferFails(p)
    \/ Geolocation(p)
    \/ Response(p)
    \/ Sink(p)

NextConc == (\E p \in Procs : HandleConc(p)) \/ Tick

SpecConc == InitConc /\ [][NextConc]_vars

(***************************************************************************)
(* Buffer over time: the calls of one device, one at a time, with a buffer *)
(* lifetime of 1..MaxLifetime units of time, so that an entry can lose a   *)
(* part of its lifetime before the next call writes it, and with one more  *)
(* uplink whose 3 receptions all have a fine-timestamp, so that a          *)
(* multi-frame TDOA request can carry two different frames.  The GNSS and  *)
(* WiFi strategies are disabled and the uplinks carry no object.           *)
(***************************************************************************)
MaxLifetime == 2

LifetimeConfigs ==
    {[c EXCEPT !.GeolocationBufferTTL = t] :
        c \in {k \in Configs : k.Geolocation /\ ~k.GeolocationGNSS /\ ~k.GeolocationWifi},
        t \in 1..MaxLifetime}

LifetimeRxInfos == RxInfos \cup {RXInfo(4, <<TRUE, TRUE, TRUE>>)}

InitLifetime ==
    /\ config \in LifetimeConfigs
    /\ store = [d \in Devices |-> NoEntry]
    /\ call = [p \in Procs |-> IdleCall]

HandleLifetime(p) ==
    \/ UplinkOf(p, "dev_a", LifetimeRxInfos, {JsonEmpty})
    \/ ReadBuffer(p)
    \/ ReadBufferFails(p)
    \/ SaveBuffer(p)
    \/ SaveBufferFails(p)
    \/ Geolocation(p)
    \/ Response(p)
    \/ Sink(p)

NextLifetime == HandleLifetime(1) \/ Tick

SpecLifetime == InitLifetime /\ [][NextLifetime]_vars

(***************************************************************************)
(* Uplinks of one device while time passes, with the age of the entry      *)
(* counted (up to one unit more than the longest lifetime).                *)
(***************************************************************************)
TickAging ==
    /\ \E d \in Devices : store[d].ttl > 0
    /\ store' = [d \in Devices |->
                    LET e == Expire(store)[d]
                    IN IF e.ttl > 0
                       THEN [e EXCEPT !.age = IF @ > MaxLifetime THEN @ ELSE @ + 1]
                       ELSE e]
    /\ UNCHANGED <<config, call>>

NextAlive == HandleLifetime(1) \/ TickAging

SpecAlive == InitLifetime /\ [][NextAlive]_vars

(***************************************************************************)
(* Two calls for one device, one per process, interleaved in every way,    *)
(* on a buffer that is empty or holds one frame; no time passes.           *)
(***************************************************************************)
\* the uplink of process p, and the frame buffered before either call
PairRxInfos(p) == {rx \in LifetimeRxInfos : FCntOf(rx) = p}

InitialFrames == {<<>>} \cup {<<rx>> : rx \in {r \in LifetimeRxInfos : FCntOf(r) = 4}}

InitPair ==
    /\ config \in {c \in ConcConfigs : c.GeolocationBufferTTL > 0}
    /\ \E frames \in InitialFrames :
          store = [d \in Devices |->
                      IF d = "dev_a" /\ frames # <<>>
                      THEN [NoEntry EXCEPT !.frames = frames,
                                           !.ttl = config.GeolocationBufferTTL]
                      ELSE NoEntry]
    /\ call = [p \in Procs |-> IdleCall]

UplinkOnce(p) ==
    /\ call[p].pc = "idle"
    /\ UplinkOf(p, "dev_a", PairRxInfos(p), {JsonEmpty})

HandlePair(p) ==
    \/ UplinkOnce(p)
    \/ ReadBuffer(p)
    \/ ReadBufferFails(p)
    \/ SaveBuffer(p)
    \/ SaveBufferFails(p)
    \/ Geolocation(p)
    \/ Response(p)
    \/ Sink(p)

NextPair == \E p \in Procs : HandlePair(p)

SpecPair == InitPair /\ [][NextPair]_vars

(***************************************************************************)
(* One call, of any configuration, uplink and payload, on a buffer that is *)
(* empty or holds one frame.  Every store operation, the resolver request  *)
(* and the sink call return, with a value or an error: the step of the     *)
(* call that is pending is taken in the end (weak fairness).               *)
(***************************************************************************)
InitOneCall ==
    /\ config \in Configs
    /\ \E frames \in InitialFrames :
          /\ frames # <<>> => config.Geolocation /\ config.GeolocationBufferTTL > 0
          /\ store = [d \in Devices |->
                         IF d = "dev_a" /\ frames # <<>>
                         THEN [NoEntry EXCEPT !.frames = frames,
                                              !.ttl = config.GeolocationBufferTTL]
                         ELSE NoEntry]
    /\ call = [p \in Procs |-> IdleCall]

UplinkOneCall(p) ==
    /\ call[p].pc = "idle"
    /\ Uplink(p, "dev_a")

\* the steps of a call that has begun
Proceed(p) ==
    \/ ReadBuffer(p)
    \/ ReadBufferFails(p)
    \/ SaveBuffer(p)
    \/ SaveBufferFails(p)
    \/ Geolocation(p)
    \/ Response(p)
    \/ Sink(p)

NextOneCall == UplinkOneCall(1) \/ Proceed(1)

SpecOneCall == InitOneCall /\ [][NextOneCall]_vars /\ WF_vars(Proceed(1))

(***************************************************************************)
(* The other entry points of the integration, called by the dispatcher     *)
(* between the uplinks of a device: HandleJoinEvent .. HandleTxAckEvent,   *)
(* DataDownChan and Close.  handler names the entry point of the call (it  *)
(* stays "none" for HandleUplinkEvent); ret "nil" is the nil error, or the *)
(* nil channel of DataDownChan.  The uplinks carry no object or one with a *)
(* GNSS payload and WiFi access points.                                    *)
(***************************************************************************)
OtherHandlers ==
    {"HandleJoinEvent", "HandleAckEvent", "HandleErrorEvent", "HandleStatusEvent",
     "HandleLocationEvent", "HandleTxAckEvent", "DataDownChan", "Close"}

\* variant: the entry point drops the buffers of the store
OtherHandlerClearsStore(p) ==
    /\ call[p].pc \in {"idle", "done"}
    /\ \E h \in OtherHandlers :
         call' = [call EXCEPT ![p] = Returned([IdleCall EXCEPT !.handler = h], "nil")]
    /\ store' = [d \in Devices |-> NoEntry]
    /\ UNCHANGED config

\* "return nil"
OtherHandler(p) ==
    /\ call[p].pc \in {"idle", "done"}
    /\ \E h \in OtherHandlers :
         call' = [call EXCEPT ![p] = Returned([IdleCall EXCEPT !.handler = h], "nil")]
    /\ UNCHANGED <<config, store>>

HandleUplinkOrOther(p, d) ==
    \/ UplinkOf(p, d, RxInfos, {JsonEmpty, JsonObject(JString(B64_AQID), WifiAPs)})
    \/ ReadBuffer(p)
    \/ ReadBufferFails(p)
    \/ SaveBuffer(p)
    \/ SaveBufferFails(p)
    \/ Geolocation(p)
    \/ Response(p)
    \/ Sink(p)
    \/ OtherHandler(p)

NextHandlers == HandleUplinkOrOther(1, "dev_a") \/ Tick

SpecHandlers == Init /\ [][NextHandlers]_vars

(***************************************************************************)
(* Several devices: the calls of two devices run at the same time, their   *)
(* steps interleaved in any order; process 1 handles the uplinks of dev_a  *)
(* and process 2 those of dev_b.  The uplinks of the two devices have      *)
(* different receptions.  Configurations as for the concurrent calls.      *)
(***************************************************************************)
DeviceRxInfos(d) ==
    IF d = "dev_a"
    THEN {RXInfo(1, <<TRUE, FALSE, TRUE, TRUE>>), RXInfo(3, <<TRUE, TRUE>>)}
    ELSE {RXInfo(2, <<TRUE, TRUE, FALSE>>), RXInfo(4, <<TRUE, TRUE, TRUE>>)}

DeviceOf(p) == IF p = 1 THEN "dev_a" ELSE "dev_b"

InitDevices ==
    /\ config \in ConcConfigs
    /\ store = [d \in Devices |-> NoEntry]
    /\ call = [p \in Procs |-> IdleCall]

HandleDevices(p) ==
    \/ UplinkOf(p, DeviceOf(p), DeviceRxInfos(DeviceOf(p)), {JsonEmpty})
    \/ ReadBuffer(p)
    \/ ReadBufferFails(p)
    \/ SaveBuffer(p)
    \/ SaveBufferFails(p)
    \/ Geolocation(p)
    \/ Response(p)
    \/ Sink(p)

NextDevices == (\E p \in Procs : HandleDevices(p)) \/ Tick

SpecDevices == InitDevices /\ [][NextDevices]_vars

(***************************************************************************)
(* Vocabulary of the properties.                                           *)
(***************************************************************************)
Max(a, b) == IF a >= b THEN a ELSE b

\* the strategy a request belongs to
StrategyOf(req) ==
    CASE req.endpoint \in {"v2_tdoa_single", "v2_tdoa_multi"} -> "TDOA"
      [] req.endpoint \in {"v2_rssi_single", "v2_rssi_multi"} -> "RSSI"
      [] req.endpoint = "v3_gnss_rl1110_single" -> "GNSS"
      [] req.endpoint = "v2_wifi_tdoa_single" -> "WIFI"
      [] OTHER -> "NONE"

SourceTag(strategy) ==
    CASE strategy = "TDOA" -> "GEO_RESOLVER_TDOA"
      [] strategy = "RSSI" -> "GEO_RESOLVER_RSSI"
      [] strategy = "GNSS" -> "GEO_RESOLVER_GNSS"
      [] strategy = "WIFI" -> "GEO_RESOLVER_WIFI"
      [] OTHER -> "NONE"

\* the fine-timestamp filter as the specification words it: keep the
\* receptions with a fine-timestamp, then drop the frames left with fewer than m
RefFilter(buffer, m) ==
    SelectSeq([i \in 1..Len(buffer) |->
                  SelectSeq(buffer[i], LAMBDA r : r.fine_timestamp)],
              LAMBDA f : Len(f) >= m)

\* in-order concatenation of the uplink ids of the frames
RECURSIVE FlatIds(_)
FlatIds(frames) ==
    IF frames = <<>> THEN <<>>
    ELSE FlatIds(SubSeq(frames, 1, Len(frames) - 1))
         \o [j \in 1..Len(frames[Len(frames)]) |-> frames[Len(frames)][j].uplink_id]

\* the orchestrator of this call has run up to a request or to its return
GeolocRan(c) == c.reached # {}

\* qualification of the strategies (section 4.5 of the specification)
QualGNSS(c) ==
    LET r == getBytesFromJSONObject(config.GeolocationGNSSPayloadField,
                                    c.pl.object_json)
    IN config.GeolocationGNSS /\ ~r.err /\ Len(r.bytes) > 0
QualWifi(c) ==
    LET r == getWifiAccessPointsFromJSONObject(config.GeolocationWifiPayloadField,
                                               c.pl.object_json)
    IN config.GeolocationWifi /\ ~r.err /\ Len(r.aps) > 0
QualTDOA(c) ==
    /\ config.GeolocationTDOA
    /\ Len(RefFilter(c.geolocBuffer, 3)) >= Max(1, config.GeolocationMinBufferSize)
QualRSSI(c) ==
    /\ config.GeolocationRSSI
    /\ Len(c.geolocBuffer) >= Max(1, config.GeolocationMinBufferSize)

FirstQualifying(c) ==
    IF QualGNSS(c) THEN "GNSS"
    ELSE IF QualWifi(c) THEN "WIFI"
    ELSE IF QualTDOA(c) THEN "TDOA"
    ELSE IF QualRSSI(c) THEN "RSSI"
    ELSE "NONE"

\* the strategies attempted by the call, in order
Attempted(c) == [i \in 1..Len(c.requests) |-> StrategyOf(c.requests[i])]

(***************************************************************************)
(* C1 - Strategy priority: in every call whose orchestrator ran, the       *)
(* strategy attempted is the first one that qualifies in the order GNSS,   *)
(* WiFi, TDOA, RSSI (and none is attempted only if none qualifies).        *)
(***************************************************************************)
C1_StrategyPriority ==
    \A p \in Procs :
        GeolocRan(call[p]) =>
            Attempted(call[p]) =
                (IF FirstQualifying(call[p]) = "NONE" THEN <<>>
                 ELSE <<FirstQualifying(call[p])>>)

(***************************************************************************)
(* C2 - No fallback on no-location: once the resolver answered "no         *)
(* location" to the request of a call, the call has made exactly that one  *)
(* request, makes no other, and emits no LocationEvent.                    *)
(***************************************************************************)
C2_NoFallbackOnNoLocation ==
    \A p \in Procs :
        (call[p].responses # <<>> /\ call[p].responses[1] = "no_location") =>
            /\ Len(call[p].requests) = 1
            /\ call[p].pc = "done"
            /\ call[p].events = <<>>

\* a GNSS request was answered "no location" while TDOA or RSSI qualified
C2_Witness ==
    \E p \in Procs :
        /\ call[p].pc = "done"
        /\ call[p].responses = <<"no_location">>
        /\ Attempted(call[p]) = <<"GNSS">>
        /\ QualTDOA(call[p]) \/ QualRSSI(call[p])

(***************************************************************************)
(* C3 - A HandleUplinkEvent call makes at most one resolver request,       *)
(* whatever the outcome of that request.                                   *)
(***************************************************************************)
C3_AtMostOneRequest ==
    \A p \in Procs : Len(call[p].requests) <= 1 /\ Len(call[p].responses) <= 1

\* a TDOA request failed while RSSI qualified, and the call is over
C3_Witness ==
    \E p \in Procs :
        /\ call[p].pc = "done"
        /\ call[p].responses = <<"error">>
        /\ Attempted(call[p]) = <<"TDOA">>
        /\ QualRSSI(call[p])

(***************************************************************************)
(* C4 - HandleLocationEvent is called at most once per call, and only when *)
(* the resolver returned a located fix for the request of that call.       *)
(***************************************************************************)
C4_EventOnlyIfLocated ==
    \A p \in Procs :
        /\ Len(call[p].events) <= 1
        /\ call[p].events # <<>> => call[p].responses = <<"located">>

(***************************************************************************)
(* C5 - A resolver failure is propagated: a call whose resolver request    *)
(* failed (with an error other than no-location) returns an error.         *)
(***************************************************************************)
C5_ResolverFailurePropagated ==
    \A p \in Procs :
        (call[p].pc = "done" /\ "error" \in {call[p].responses[i] :
                                              i \in 1..Len(call[p].responses)})
            => call[p].ret = "error"

(***************************************************************************)
(* C6 - Uplink-id round-trip: the uplink_ids of a LocationEvent produced   *)
(* by TDOA or RSSI are the in-order concatenation of the uplink ids of the *)
(* frames sent to the resolver; for TDOA these are the frames and          *)
(* receptions that survive the fine-timestamp filter, for RSSI all frames  *)
(* of the unfiltered buffer.                                               *)
(***************************************************************************)
C6_UplinkIdRoundTrip ==
    \A p \in Procs :
        LET c == call[p] IN
        (c.events # <<>> /\ c.requests # <<>>
             /\ StrategyOf(c.requests[1]) \in {"TDOA", "RSSI"}) =>
            /\ c.events[1].event.uplink_ids = FlatIds(c.requests[1].lorawan)
            /\ StrategyOf(c.requests[1]) = "TDOA" =>
                   c.requests[1].lorawan = RefFilter(c.geolocBuffer, 3)
            /\ StrategyOf(c.requests[1]) = "RSSI" =>
                   c.requests[1].lorawan = c.geolocBuffer

\* a multi-frame TDOA event whose request left out a reception of the buffer
C6_Witness ==
    \E p \in Procs :
        LET c == call[p] IN
        /\ c.events # <<>>
        /\ Attempted(c) = <<"TDOA">>
        /\ Len(c.requests[1].lorawan) = 2
        /\ Len(c.events[1].event.uplink_ids) < Len(FlatIds(c.geolocBuffer))

(***************************************************************************)
(* C7 - An event produced by GNSS or WiFi has no uplink_ids and carries    *)
(* the f_cnt of the uplink; an event with uplink_ids has f_cnt 0.          *)
(***************************************************************************)
C7_FCntOnlyWithoutUplinkIds ==
    \A p \in Procs :
        LET c == call[p] IN
        (c.events # <<>> /\ c.requests # <<>>) =>
            /\ StrategyOf(c.requests[1]) \in {"GNSS", "WIFI"} =>
                   /\ c.events[1].event.uplink_ids = <<>>
                   /\ c.events[1].event.f_cnt = c.pl.f_cnt
            /\ c.events[1].event.uplink_ids # <<>> => c.events[1].event.f_cnt = 0

\* a GNSS event of an uplink with a non-zero f_cnt
C7_Witness ==
    \E p \in Procs :
        /\ call[p].events # <<>>
        /\ Attempted(call[p]) = <<"GNSS">>
        /\ call[p].pl.f_cnt > 0

(***************************************************************************)
(* C8 - Source tagging: the location of every emitted event carries the    *)
(* source of the strategy whose request was sent.                          *)
(***************************************************************************)
C8_SourceTagging ==
    \A p \in Procs :
        LET c == call[p] IN
        c.events # <<>> =>
            /\ c.requests # <<>>
            /\ c.events[1].event.location.source = SourceTag(StrategyOf(c.requests[1]))

(***************************************************************************)
(* C9 - Min-buffer gating.  As claimed: for every k, k = 0 included, an    *)
(* enabled TDOA (RSSI) strategy that is reached makes an attempt iff the   *)
(* number of frames surviving the filter (of the unfiltered buffer) is     *)
(* >= k.                                                                   *)
(***************************************************************************)
TDOAReached(c) == GeolocRan(c) /\ config.GeolocationTDOA /\ "tdoa" \in c.reached
RSSIReached(c) == GeolocRan(c) /\ config.GeolocationRSSI /\ "rssi" \in c.reached
TDOAAttempted(c) == \E i \in 1..Len(c.requests) : StrategyOf(c.requests[i]) = "TDOA"
RSSIAttempted(c) == \E i \in 1..Len(c.requests) : StrategyOf(c.requests[i]) = "RSSI"

C10_TDOAFilter ==
    \A p \in Procs :
        LET c == call[p] IN
        \A i \in 1..Len(c.requests) :
            StrategyOf(c.requests[i]) = "TDOA" =>
                LET frames == c.requests[i].lorawan IN
                /\ \A f \in 1..Len(frames) :
                       /\ Len(frames[f]) >= 3
                       /\ \A j \in 1..Len(frames[f]) : frames[f][j].fine_timestamp
                /\ Len(frames) >= Max(1, config.GeolocationMinBufferSize)
                /\ RefFilter(c.geolocBuffer, 3) # <<>>

\* a TDOA request for a buffer that holds a reception without fine-timestamp
\* and a frame with fewer than 3 fine-timestamped receptions
C10_Witness ==
    \E p \in Procs :
        LET c == call[p] IN
        /\ Attempted(c) = <<"TDOA">>
        /\ Len(c.geolocBuffer) = 2
        /\ Len(c.requests[1].lorawan) = 1
        /\ Len(c.requests[1].lorawan[1]) < Len(c.geolocBuffer[2])


(***************************************************************************)
(* C11 - Fall-through when TDOA does not qualify: with TDOA and RSSI       *)
(* enabled and no GNSS or WiFi attempt, when the filtered buffer has fewer *)
(* than max(1, min_buffer_size) frames and the unfiltered buffer has at    *)
(* least that many, the call attempts RSSI on the unfiltered buffer, and   *)
(* the uplink_ids of its event are those of all receptions of the buffer.  *)
(***************************************************************************)
FallThroughCase(c) ==
    /\ GeolocRan(c)
    /\ config.GeolocationTDOA /\ config.GeolocationRSSI
    /\ \A i \in 1..Len(c.requests) : StrategyOf(c.requests[i]) \notin {"GNSS", "WIFI"}
    /\ Len(RefFilter(c.geolocBuffer, 3)) < Max(1, config.GeolocationMinBufferSize)
    /\ Len(c.geolocBuffer) >= Max(1, config.GeolocationMinBufferSize)

AttemptsRSSIOnBuffer(c) ==
    /\ Attempted(c) = <<"RSSI">>
    /\ c.requests[1].lorawan = c.geolocBuffer
    /\ \A i \in 1..Len(c.events) :
           c.events[i].event.uplink_ids = FlatIds(c.geolocBuffer)

C11_FallThroughToRSSI ==
    \A p \in Procs : FallThroughCase(call[p]) => AttemptsRSSIOnBuffer(call[p])


(***************************************************************************)
(* C12 - Disabled geolocation is inert: when config.Geolocation is false,  *)
(* every call returns success at once, with no buffer read, no buffer      *)
(* write, no resolver request and no sink call, whatever the uplink and    *)
(* the other configuration flags; the store stays empty.                   *)
(***************************************************************************)
C12_DisabledGeolocationInert ==
    ~config.Geolocation =>
        /\ \A p \in Procs :
              /\ call[p].pc \in {"idle", "done"}
              /\ call[p].pc = "done" => call[p].ret = "nil"
              /\ call[p].io = <<>>
              /\ call[p].requests = <<>>
              /\ call[p].events = <<>>
        /\ \A d \in Devices : store[d] = NoEntry

\* a buffer-worthy uplink with a GNSS payload was handled with geolocation
\* disabled and every strategy enabled
C12_Witness ==
    /\ ~config.Geolocation
    /\ config.GeolocationGNSS /\ config.GeolocationWifi
    /\ config.GeolocationTDOA /\ config.GeolocationRSSI
    /\ config.GeolocationBufferTTL > 0
    /\ \E p \in Procs :
          /\ call[p].pc = "done"
          /\ Len(call[p].pl.rx_info) >= 3
          /\ LET r == getBytesFromJSONObject(config.GeolocationGNSSPayloadField,
                                             call[p].pl.object_json)
             IN ~r.err /\ Len(r.bytes) > 0


(***************************************************************************)
(* C13 - Short frames do not buffer: a call for an uplink with fewer than  *)
(* 3 receptions takes the frames it read as its buffer, unchanged, and the *)
(* only write it makes to the store puts back exactly the frames it read   *)
(* (refreshing the TTL); a failed write and its other steps leave the      *)
(* store as it is.                                                         *)
(***************************************************************************)
ShortFrameStep(p) ==
    LET c == call[p]
        d == c.pl.dev_eui
    IN (Len(c.pl.rx_info) < 3 /\ c.pc \notin {"idle", "done"} /\ call'[p] # c) =>
          CASE c.pc = "read" ->
                 /\ store' = store
                 /\ call'[p].pc # "done" =>
                       /\ call'[p].bufferRead = store[d].frames
                       /\ call'[p].geolocBuffer = store[d].frames
            [] c.pc = "save" /\ call'[p].pc # "done" ->
                 /\ store'[d].frames = c.bufferRead
                 /\ \A e \in Devices \ {d} : store'[e] = store[e]
            [] OTHER -> store' = store

C13_ShortFramesDoNotBuffer == [][\A p \in Procs : ShortFrameStep(p)]_vars

\* a call for a 2-reception uplink found a frame in the buffer and wrote the
\* buffer back
C13_Witness ==
    \E p \in Procs :
        /\ Len(call[p].pl.rx_info) = 2
        /\ call[p].io = <<"get", "save">>
        /\ call[p].bufferRead # <<>>
        /\ store[call[p].pl.dev_eui].frames = call[p].bufferRead


(***************************************************************************)
(* C14 - Buffer invariant (i): starting from an empty store, after any     *)
(* sequence and any interleaving of HandleUplinkEvent calls, every frame   *)
(* of every persisted buffer has at least 3 receptions.                    *)
(***************************************************************************)
C14_PersistedFramesHaveThreeReceptions ==
    \A d \in Devices :
        \A i \in 1..Len(store[d].frames) : Len(store[d].frames[i]) >= 3

\* two interleaved calls, one of them for a 2-reception uplink, both wrote
\* the buffer, which holds two frames
C14_Witness ==
    \E p, q \in Procs :
        /\ p # q
        /\ Len(call[p].pl.rx_info) = 2 /\ "save" \in {call[p].io[i] : i \in 1..Len(call[p].io)}
        /\ Len(call[q].pl.rx_info) >= 3 /\ "save" \in {call[q].io[i] : i \in 1..Len(call[q].io)}
        /\ call[p].pl.dev_eui = call[q].pl.dev_eui
        /\ Len(store[call[p].pl.dev_eui].frames) = 2


(***************************************************************************)
(* C15 - Buffer invariant (ii): the store never holds an empty buffer: an  *)
(* entry that exists has at least one frame; a call whose buffer after the *)
(* read and append is empty makes no save, a call whose buffer is not      *)
(* empty saves before it goes on; and saving an empty sequence leaves the  *)
(* store as it is.                                                         *)
(***************************************************************************)
IoOf(c) == {c.io[i] : i \in 1..Len(c.io)}

C15_NoEmptyBufferPersisted ==
    /\ \A d \in Devices :
          /\ store[d].ttl > 0 => store[d].frames # <<>>
          /\ \A ttl \in 0..MaxTTL : SaveGeolocBuffer(store, d, <<>>, ttl) = store
    /\ \A p \in Procs :
          /\ call[p].geolocBuffer = <<>> => "save" \notin IoOf(call[p])
          /\ (call[p].geolocBuffer # <<>> /\ call[p].pc \in {"geoloc", "resolver", "sink"})
                => "save" \in IoOf(call[p])

\* a call for a 2-reception uplink read an empty buffer and went on to its
\* end without a save, the store being without entry
C15_Witness ==
    \E p \in Procs :
        /\ config.GeolocationBufferTTL > 0
        /\ Len(call[p].pl.rx_info) = 2
        /\ call[p].pc = "done" /\ call[p].ret = "nil"
        /\ call[p].bufferRead = <<>> /\ call[p].geolocBuffer = <<>>
        /\ "get" \in IoOf(call[p]) /\ "save" \notin IoOf(call[p])
        /\ GeolocRan(call[p])
        /\ store[call[p].pl.dev_eui].ttl = 0


(***************************************************************************)
(* C16 - Buffer invariant (iii): the TTL is refreshed on every write:      *)
(* every save of a call leaves the entry of the device with the frames of  *)
(* the call and a remaining lifetime equal to the configured               *)
(* geolocation_buffer_ttl, whatever the lifetime was before.               *)
(***************************************************************************)
SaveStep(p) == call[p].pc = "save" /\ call'[p].pc = "geoloc"

C16_TTLRefreshedOnWrite ==
    [][\A p \in Procs :
          SaveStep(p) =>
              LET d == call[p].pl.dev_eui
              IN /\ store'[d].ttl = config.GeolocationBufferTTL
                 /\ config.GeolocationBufferTTL > 0 =>
                        store'[d].frames = call[p].geolocBuffer]_vars

\* a call saved the buffer over an entry that had lost a part of its
\* lifetime, and the entry has the configured lifetime again
C16_Witness ==
    \E p \in Procs :
        /\ call[p].extended
        /\ call[p].pc = "geoloc"
        /\ store[call[p].pl.dev_eui].ttl = config.GeolocationBufferTTL


(***************************************************************************)
(* C17 - With geolocation_buffer_ttl = 0 the buffer is single-frame only:  *)
(* no call reads a frame of an earlier uplink, every TDOA or RSSI request  *)
(* is a single-frame request made of receptions of the current uplink, and *)
(* the uplink_ids of every TDOA or RSSI event are ids of the current       *)
(* uplink.                                                                 *)
(***************************************************************************)
Receptions(frames) ==
    UNION {{frames[i][j] : j \in 1..Len(frames[i])} : i \in 1..Len(frames)}

BufferStrategies == {"TDOA", "RSSI"}

SingleFrameOfCurrentUplink(c) ==
    /\ c.bufferRead = <<>>
    /\ \A i \in 1..Len(c.requests) :
          StrategyOf(c.requests[i]) \in BufferStrategies =>
              /\ c.requests[i].endpoint \in {"v2_tdoa_single", "v2_rssi_single"}
              /\ Len(c.requests[i].lorawan) = 1
              /\ Receptions(c.requests[i].lorawan) \subseteq Receptions(<<c.pl.rx_info>>)
              /\ \A k \in 1..Len(c.events) :
                    {c.events[k].event.uplink_ids[j] :
                        j \in 1..Len(c.events[k].event.uplink_ids)}
                      \subseteq {r.uplink_id : r \in Receptions(<<c.pl.rx_info>>)}

C17_ZeroTTLSingleFrameOnly ==
    config.GeolocationBufferTTL = 0 =>
        /\ \A d \in Devices : store[d].frames = <<>>
        /\ \A p \in Procs : SingleFrameOfCurrentUplink(call[p])

\* with a TTL of 0 a call saved its one-frame buffer, the store kept nothing
\* of it, and its single-frame RSSI request was answered with a location
C17_Witness ==
    \E p \in Procs :
        /\ config.GeolocationBufferTTL = 0
        /\ "save" \in IoOf(call[p])
        /\ Attempted(call[p]) = <<"RSSI">>
        /\ call[p].events # <<>>
        /\ store[call[p].pl.dev_eui].frames = <<>>


(***************************************************************************)
(* C18 - TTL expiry destroys the buffer: when the entry of a device was    *)
(* destroyed by the expiry of its lifetime and not written since, the read *)
(* of the next call yields the empty buffer, not an error, and the buffer  *)
(* handed to the orchestrator is empty or the current frame alone.         *)
(***************************************************************************)
BufferReadStep(p) ==
    /\ call[p].pc = "read"
    /\ call'[p].pc \in {"save", "geoloc"}

C18_ExpiryDestroysBuffer ==
    [][\A p \in Procs :
          (BufferReadStep(p) /\ store[call[p].pl.dev_eui].expired) =>
              /\ call'[p].bufferRead = <<>>
              /\ call'[p].ret # "error"
              /\ call'[p].geolocBuffer =
                    (IF Len(call[p].pl.rx_info) >= 3
                     THEN <<call[p].pl.rx_info>> ELSE <<>>)]_vars

\* a call read the buffer after the entry of its device had expired: it got
\* no frame and holds its own frame alone, not yet saved
C18_Witness ==
    \E p \in Procs :
        /\ call[p].pc = "save"
        /\ store[call[p].pl.dev_eui].expired
        /\ call[p].bufferRead = <<>>
        /\ call[p].geolocBuffer = <<call[p].pl.rx_info>>


(***************************************************************************)
(* C19 - Buffer order is oldest first, end to end: a call for an uplink    *)
(* with at least 3 receptions puts its frame after the frames it read,     *)
(* which it keeps in their stored order; its save stores the frames in     *)
(* that order; and its TDOA or RSSI request carries the frames in that     *)
(* order, each with its receptions in their original order (for TDOA, the  *)
(* frames and receptions that survive the fine-timestamp filter).          *)
(***************************************************************************)
RequestInBufferOrder(c) ==
    \A i \in 1..Len(c.requests) :
        /\ StrategyOf(c.requests[i]) = "RSSI" =>
              c.requests[i].lorawan = c.geolocBuffer
        /\ StrategyOf(c.requests[i]) = "TDOA" =>
              c.requests[i].lorawan = RefFilter(c.geolocBuffer, 3)

BufferOrderStep(p) ==
    /\ (BufferReadStep(p) /\ Len(call[p].pl.rx_info) >= 3) =>
          call'[p].geolocBuffer =
              store[call[p].pl.dev_eui].frames \o <<call[p].pl.rx_info>>
    /\ (SaveStep(p) /\ config.GeolocationBufferTTL > 0) =>
          store'[call[p].pl.dev_eui].frames = call[p].geolocBuffer
    /\ RequestInBufferOrder(call'[p])

C19_BufferOrderOldestFirst == [][\A p \in Procs : BufferOrderStep(p)]_vars

\* the second of two different uplinks made a multi-frame TDOA request: the
\* frame read from the store first, its own frame last
C19_Witness ==
    \E p \in Procs :
        /\ Len(call[p].geolocBuffer) = 2
        /\ call[p].bufferRead = <<call[p].geolocBuffer[1]>>
        /\ call[p].geolocBuffer[2] = call[p].pl.rx_info
        /\ call[p].geolocBuffer[1] # call[p].geolocBuffer[2]
        /\ Len(call[p].requests) = 1
        /\ call[p].requests[1].endpoint = "v2_tdoa_multi"
        /\ call[p].requests[1].lorawan[1] # call[p].requests[1].lorawan[2]
        /\ call[p].events # <<>>


(***************************************************************************)
(* C20 - Request shape selection: a TDOA request is the single-frame       *)
(* request exactly when one frame survives the fine-timestamp filter and   *)
(* the multi-frame request when two or more survive, whatever the length   *)
(* of the buffer; an RSSI request is the single-frame request exactly when *)
(* the unfiltered buffer holds one frame and the multi-frame request       *)
(* otherwise.                                                              *)
(***************************************************************************)
ShapeFollows(req, single, multi, frames) ==
    /\ req.endpoint \in {single, multi}
    /\ req.endpoint = single <=> Len(frames) = 1
    /\ req.endpoint = multi <=> Len(frames) >= 2
    /\ Len(req.lorawan) = Len(frames)

C20_RequestShapeSelection ==
    \A p \in Procs :
        \A i \in 1..Len(call[p].requests) :
            LET req == call[p].requests[i] IN
            /\ StrategyOf(req) = "TDOA" =>
                  ShapeFollows(req, "v2_tdoa_single", "v2_tdoa_multi",
                               RefFilter(call[p].geolocBuffer, 3))
            /\ StrategyOf(req) = "RSSI" =>
                  ShapeFollows(req, "v2_rssi_single", "v2_rssi_multi",
                               call[p].geolocBuffer)

\* a single-frame TDOA request was made from a buffer of two frames, of
\* which one survived the filter
C20_Witness ==
    \E p \in Procs :
        /\ Len(call[p].geolocBuffer) = 2
        /\ Len(RefFilter(call[p].geolocBuffer, 3)) = 1
        /\ Len(call[p].requests) = 1
        /\ call[p].requests[1].endpoint = "v2_tdoa_single"
        /\ call[p].responses # <<>>


(***************************************************************************)
(* C21 - Buffer store failure: a call whose buffer read or write failed    *)
(* returns an error at once, without invoking the orchestrator (no         *)
(* resolver request, no sink call); when the read failed, no write was     *)
(* attempted.                                                              *)
(***************************************************************************)
C21_StoreFailureStopsCall ==
    \A p \in Procs :
        call[p].storeFailed =>
            /\ call[p].pc = "done" /\ call[p].ret = "error"
            /\ call[p].io \in {<<"get">>, <<"get", "save">>}
            /\ ~GeolocRan(call[p])
            /\ call[p].requests = <<>> /\ call[p].events = <<>>

\* the write of a buffer that qualifies for TDOA or RSSI failed
C21_Witness ==
    \E p \in Procs :
        /\ call[p].storeFailed
        /\ call[p].io = <<"get", "save">>
        /\ QualTDOA(call[p]) \/ QualRSSI(call[p])


(***************************************************************************)
(* C22 - Extractor failures never fail the uplink: a call in which the     *)
(* GNSS or the WiFi extractor ran and failed (invalid JSON, type mismatch, *)
(* base64 error) returns success.                                          *)
(***************************************************************************)
GNSSExtractFailed(c) ==
    /\ "gnss" \in c.reached /\ config.GeolocationGNSS
    /\ getBytesFromJSONObject(config.GeolocationGNSSPayloadField,
                              c.pl.object_json).err

WifiExtractFailed(c) ==
    /\ "wifi" \in c.reached /\ config.GeolocationWifi
    /\ getWifiAccessPointsFromJSONObject(config.GeolocationWifiPayloadField,
                                         c.pl.object_json).err

ExtractFailed(c) == GNSSExtractFailed(c) \/ WifiExtractFailed(c)

C22_ExtractFailureIsNotAnError ==
    \A p \in Procs :
        ExtractFailed(call[p]) => call[p].pc = "done" /\ call[p].ret = "nil"

\* the GNSS field of a valid object was not base64: the call returned success
C22_Witness ==
    \E p \in Procs :
        /\ GNSSExtractFailed(call[p])
        /\ call[p].pl.object_json.text = "object"
        /\ call[p].pl.object_json.members[GNSSField] = JString(B64_Bad)
        /\ call[p].ret = "nil"


(***************************************************************************)
(* C23 - An extractor failure only skips its strategy: a call in which the *)
(* GNSS or the WiFi extractor failed makes the request it would make if    *)
(* the fields that fail to extract were absent from object_json (and none  *)
(* if it would make none).                                                 *)
(***************************************************************************)
\* object_json without the members that fail to extract
WithoutFailingFields(obj) ==
    IF obj.text # "object" THEN JsonEmpty
    ELSE [obj EXCEPT
            !.members = [f \in FieldNames |->
                IF f = GNSSField /\ getBytesFromJSONObject(GNSSField, obj).err
                   THEN JAbsent
                ELSE IF f = WifiField
                        /\ getWifiAccessPointsFromJSONObject(WifiField, obj).err
                   THEN JAbsent
                ELSE obj.members[f]]]

RequestsAsIfAbsent(c) ==
    LET g == geolocationFrom(1, config, c.geolocBuffer,
                 [c.pl EXCEPT !.object_json = WithoutFailingFields(@)])
    IN /\ g.act # "abort"
       /\ c.requests = (IF g.act = "request" THEN <<g.req>> ELSE <<>>)

C23_ExtractFailureOnlySkips ==
    \A p \in Procs : ExtractFailed(call[p]) => RequestsAsIfAbsent(call[p])


(***************************************************************************)
(* C24 - NoLocation is never surfaced as an error: for each of the four    *)
(* strategies, a call whose resolver request was answered with the         *)
(* no-location sentinel returns success and emits no LocationEvent.        *)
(***************************************************************************)
AnsweredNoLocation(c) ==
    \E i \in 1..Len(c.responses) : c.responses[i] = "no_location"

C24_NoLocationIsNotAnError ==
    \A p \in Procs :
        AnsweredNoLocation(call[p]) =>
            /\ call[p].pc = "done" /\ call[p].ret = "nil"
            /\ call[p].events = <<>>
            /\ "sink" \notin IoOf(call[p])

\* the WiFi request of a call was answered "no location"
C24_Witness ==
    \E p \in Procs :
        /\ AnsweredNoLocation(call[p])
        /\ Attempted(call[p]) = <<"WIFI">>
        /\ call[p].ret = "nil"


(***************************************************************************)
(* C25 - Sink failures are non-fatal: when HandleLocationEvent of the sink *)
(* returns an error, the call returns success, and the step leaves the     *)
(* store, with the buffer the call wrote, as it is.                        *)
(***************************************************************************)
SinkFailsStep(p) ==
    /\ call[p].pc = "sink"
    /\ Len(call'[p].events) = Len(call[p].events) + 1
    /\ call'[p].events[Len(call'[p].events)].err

C25_SinkFailureNotFatal ==
    [][\A p \in Procs :
          SinkFailsStep(p) =>
              /\ call'[p].pc = "done" /\ call'[p].ret = "nil"
              /\ store' = store]_vars

\* the sink failed on the event of a call that had written its buffer; the
\* call returned success and the store holds that buffer
C25_Witness ==
    \E p \in Procs :
        /\ call[p].pc = "done" /\ call[p].ret = "nil"
        /\ call[p].events # <<>> /\ call[p].events[1].err
        /\ "save" \in IoOf(call[p])
        /\ store[call[p].pl.dev_eui].ttl > 0
        /\ store[call[p].pl.dev_eui].frames = call[p].geolocBuffer


(***************************************************************************)
(* C26 - Cancellation: a call whose buffer operation or resolver request   *)
(* was aborted by the cancellation of the context (the operation fails     *)
(* with the error of the context) returns an error and emits no            *)
(* LocationEvent, for every strategy, WiFi included.                       *)
(***************************************************************************)
\* the I/O in progress was aborted: a store operation failed, or the resolver
\* request ended with an error that is not the no-location sentinel
IOAborted(c) ==
    \/ c.storeFailed
    \/ \E i \in 1..Len(c.responses) : c.responses[i] = "error"

C26_CancellationIsAnError ==
    \A p \in Procs :
        IOAborted(call[p]) =>
            /\ call[p].pc \in {"sink", "done"} => call[p].events = <<>>
            /\ call[p].pc # "sink"
            /\ call[p].pc = "done" => call[p].ret = "error"


(***************************************************************************)
(* C27 - Each uplink only appends its own frame: under any interleaving of *)
(* calls for the same device, a call reads the frames of the store as they *)
(* are, saves exactly the frames it read followed by its own frame when    *)
(* that frame has at least 3 receptions, and hands its orchestrator that   *)
(* same sequence.                                                          *)
(***************************************************************************)
\* the frames the call read, followed by its frame if it has 3 receptions
OwnBuffer(c) ==
    IF Len(c.pl.rx_info) >= 3 THEN Append(c.bufferRead, c.pl.rx_info)
    ELSE c.bufferRead

OwnFrameStep(p) ==
    /\ BufferReadStep(p) =>
          call'[p].bufferRead = store[call[p].pl.dev_eui].frames
    /\ (SaveStep(p) /\ config.GeolocationBufferTTL > 0) =>
          store'[call[p].pl.dev_eui].frames = OwnBuffer(call[p])
    /\ call'[p].pc \in {"save", "geoloc", "resolver", "sink"} =>
          /\ call'[p].geolocBuffer = OwnBuffer(call'[p])
          /\ RequestInBufferOrder(call'[p])

C27_OnlyOwnFrameAppended == [][\A p \in Procs : OwnFrameStep(p)]_vars

\* last writer wins: two interleaved calls both read the empty buffer and
\* saved their own frame; the store holds the frame of one of them only
C27_Witness ==
    \E p, q \in Procs :
        /\ p # q
        /\ call[p].pc = "geoloc" /\ call[q].pc = "geoloc"
        /\ "save" \in IoOf(call[p]) /\ "save" \in IoOf(call[q])
        /\ call[p].bufferRead = <<>> /\ call[q].bufferRead = <<>>
        /\ call[p].pl.rx_info # call[q].pl.rx_info
        /\ store[call[p].pl.dev_eui].frames = <<call[p].pl.rx_info>>


(***************************************************************************)
(* C28 - Device isolation: a call for a device reads the buffer of that    *)
(* device and changes the entry of no other device; the persisted buffer   *)
(* of a device, and every request and event of a call for it, hold         *)
(* receptions of uplinks of that device only, under any interleaving of    *)
(* the uplinks of several devices.                                         *)
(***************************************************************************)
\* the receptions of the uplinks of device d
ReceptionsOf(d) == UNION {{rx[j] : j \in 1..Len(rx)} : rx \in DeviceRxInfos(d)}

OnlyReceptionsOf(d, c) ==
    /\ Receptions(c.bufferRead) \subseteq ReceptionsOf(d)
    /\ Receptions(c.geolocBuffer) \subseteq ReceptionsOf(d)
    /\ \A i \in 1..Len(c.requests) :
          Receptions(c.requests[i].lorawan) \subseteq ReceptionsOf(d)
    /\ \A i \in 1..Len(c.events) :
          /\ c.events[i].event.dev_eui = d
          /\ {c.events[i].event.uplink_ids[j] :
                 j \in 1..Len(c.events[i].event.uplink_ids)}
               \subseteq {r.uplink_id : r \in ReceptionsOf(d)}

DeviceIsolationStep(p) ==
    call'[p] # call[p] =>
        LET d == call'[p].pl.dev_eui IN
        /\ \A e \in Devices \ {d} : store'[e] = store[e]
        /\ BufferReadStep(p) => call'[p].bufferRead = store[d].frames
        /\ OnlyReceptionsOf(d, call'[p])
        /\ Receptions(store'[d].frames) \subseteq ReceptionsOf(d)

C28_DeviceIsolation == [][\A p \in Procs : DeviceIsolationStep(p)]_vars

\* calls for two devices ran interleaved: each made a request from its buffer
\* while the store held a buffer for each of the devices
C28_Witness ==
    \E p, q \in Procs :
        /\ call[p].pc = "resolver" /\ call[q].pc = "resolver"
        /\ call[p].pl.dev_eui # call[q].pl.dev_eui
        /\ store[call[p].pl.dev_eui].frames # <<>>
        /\ store[call[q].pl.dev_eui].frames # <<>>
        /\ Len(call[p].geolocBuffer) = 2


(***************************************************************************)
(* C29 - Absent payload field: when GNSS (respectively WiFi) is enabled    *)
(* and object_json is empty or lacks the configured field, the extractor   *)
(* returns empty without error and the call makes no GNSS (respectively    *)
(* WiFi) request; when no other strategy qualifies either, the call makes  *)
(* no request, emits no LocationEvent and returns success.                 *)
(***************************************************************************)
FieldAbsent(field, obj) ==
    \/ obj.text = "empty"
    \/ obj.text = "object" /\ obj.members[field] = JAbsent

NothingDone(c) ==
    /\ c.requests = <<>> /\ c.events = <<>>
    /\ c.pc = "done" /\ c.ret = "nil"

GNSSAbsentCase(c) ==
    /\ GeolocRan(c) /\ config.GeolocationGNSS
    /\ FieldAbsent(config.GeolocationGNSSPayloadField, c.pl.object_json)

WifiAbsentCase(c) ==
    /\ GeolocRan(c) /\ config.GeolocationWifi
    /\ FieldAbsent(config.GeolocationWifiPayloadField, c.pl.object_json)

C29_AbsentPayloadField ==
    \A p \in Procs :
        LET c == call[p] IN
        /\ GNSSAbsentCase(c) =>
              /\ getBytesFromJSONObject(config.GeolocationGNSSPayloadField,
                                        c.pl.object_json)
                   = [err |-> FALSE, bytes |-> <<>>]
              /\ \A i \in 1..Len(c.requests) : StrategyOf(c.requests[i]) # "GNSS"
              /\ (~QualWifi(c) /\ ~QualTDOA(c) /\ ~QualRSSI(c)) => NothingDone(c)
        /\ WifiAbsentCase(c) =>
              /\ getWifiAccessPointsFromJSONObject(
                     config.GeolocationWifiPayloadField, c.pl.object_json)
                   = [err |-> FALSE, aps |-> <<>>]
              /\ \A i \in 1..Len(c.requests) : StrategyOf(c.requests[i]) # "WIFI"
              /\ (~QualGNSS(c) /\ ~QualTDOA(c) /\ ~QualRSSI(c)) => NothingDone(c)

\* GNSS, TDOA and RSSI are enabled, the object has no GNSS field and the
\* frame is too short for the buffer: the call returned success, nothing done
C29_Witness ==
    \E p \in Procs :
        /\ GNSSAbsentCase(call[p])
        /\ call[p].pl.object_json.text = "object"
        /\ config.GeolocationTDOA /\ config.GeolocationRSSI
        /\ ~config.GeolocationWifi
        /\ call[p].geolocBuffer = <<>>
        /\ NothingDone(call[p])


(***************************************************************************)
(* C30 - All handlers other than HandleUplinkEvent are no-ops: a call of   *)
(* HandleJoinEvent, HandleAckEvent, HandleErrorEvent, HandleStatusEvent,   *)
(* HandleLocationEvent, HandleTxAckEvent or Close returns success, and     *)
(* DataDownChan returns no channel; the call leaves the store as it is,    *)
(* makes no resolver request and calls no sink, in every state and with    *)
(* every configuration.                                                    *)
(***************************************************************************)
OtherHandlerStep(p) ==
    /\ call'[p] # call[p]
    /\ call'[p].handler \in OtherHandlers

C30_OtherHandlersAreNoOps ==
    [][\A p \in Procs :
          OtherHandlerStep(p) =>
              /\ call'[p].pc = "done" /\ call'[p].ret = "nil"
              /\ call'[p].io = <<>>
              /\ call'[p].requests = <<>> /\ call'[p].events = <<>>
              /\ store' = store /\ config' = config]_vars

\* Close was called while the store held a buffer of the device, which is
\* still there
C30_Witness ==
    \E p \in Procs :
        /\ call[p].handler = "Close"
        /\ call[p].pc = "done" /\ call[p].ret = "nil"
        /\ config.Geolocation
        /\ Len(store["dev_a"].frames) = 2


(***************************************************************************)
(* C31 - Identity propagation: every LocationEvent carries the             *)
(* application_id, application_name, device_name, dev_eui and tags of the  *)
(* uplink whose call emitted it, also when all its uplink_ids are of       *)
(* frames buffered by earlier uplinks.                                     *)
(***************************************************************************)
C31_IdentityPropagation ==
    \A p \in Procs :
        \A i \in 1..Len(call[p].events) :
            LET ev == call[p].events[i].event
                pl == call[p].pl
            IN /\ ev.application_id = pl.identity.application_id
               /\ ev.application_name = pl.identity.application_name
               /\ ev.device_name = pl.identity.device_name
               /\ ev.dev_eui = pl.dev_eui
               /\ ev.tags = pl.identity.tags

\* the event of an uplink with 2 receptions: its uplink_ids are those of a
\* frame buffered by an earlier uplink with other tags
C31_Witness ==
    \E p \in Procs :
        /\ call[p].events # <<>>
        /\ Len(call[p].pl.rx_info) = 2
        /\ call[p].events[1].event.uplink_ids # <<>>
        /\ call[p].events[1].event.tags = {<<"uplink", call[p].pl.f_cnt>>}
        /\ \A j \in 1..Len(call[p].events[1].event.uplink_ids) :
              call[p].events[1].event.uplink_ids[j] \div 10 # call[p].pl.f_cnt

(***************************************************************************)
(* C32 - Order of effects: within one call the store and the resolver are  *)
(* reached in the order buffer read, buffer write (when the buffer of the  *)
(* call is not empty), resolver request, sink call, each at most once.  No *)
(* resolver request is issued before the buffer update of the call has     *)
(* completed, and no sink call before the resolver has answered.           *)
(***************************************************************************)
IoRank(x) ==
    CASE x = "get" -> 1 [] x = "save" -> 2 [] x = "request" -> 3 [] x = "sink" -> 4

C32_OrderOfEffects ==
    \A p \in Procs :
        LET c == call[p]
        IN /\ \A i, j \in 1..Len(c.io) : i < j => IoRank(c.io[i]) < IoRank(c.io[j])
           /\ c.io # <<>> => c.io[1] = "get"
           /\ "save" \in IoOf(c) => c.geolocBuffer # <<>>
           /\ "request" \in IoOf(c) =>
                 /\ "get" \in IoOf(c)
                 /\ ~c.storeFailed
                 /\ c.geolocBuffer # <<>> => "save" \in IoOf(c)
           /\ "sink" \in IoOf(c) =>
                 /\ "request" \in IoOf(c)
                 /\ Len(c.responses) = Len(c.requests)
                 /\ c.loc # None
           /\ c.pc = "done" /\ c.ret = "nil" /\ c.geolocBuffer # <<>>
                 => "save" \in IoOf(c)
           /\ c.pc = "done" /\ c.ret = "nil" /\ c.loc # None
                 => "sink" \in IoOf(c)

\* a call that went through all four effects
C32_Witness ==
    \E p \in Procs : call[p].io = <<"get", "save", "request", "sink">>

(***************************************************************************)
(* C33 - filterOnFineTimestamp against its reference: for every buffer and *)
(* every minimum m the result is the buffer with the receptions without    *)
(* fine-timestamp removed and then the frames with fewer than m receptions *)
(* dropped; frames and receptions keep their order, every frame of the     *)
(* result has at least m receptions that all carry a fine-timestamp, the   *)
(* buffer given to the filter is left as it was, and filtering the result  *)
(* again with the same m changes nothing.                                  *)
(***************************************************************************)
MaxPerFrame == 4

\* a is b with some elements left out
RECURSIVE IsSubsequence(_, _)
IsSubsequence(a, b) ==
    IF a = <<>> THEN TRUE
    ELSE IF b = <<>> THEN FALSE
    ELSE IF Head(a) = Head(b) THEN IsSubsequence(Tail(a), Tail(b))
    ELSE IsSubsequence(a, Tail(b))

\* the frames of out are, in order, thinned frames of some frames of in
RECURSIVE FramesEmbed(_, _)
FramesEmbed(out, in) ==
    IF out = <<>> THEN TRUE
    ELSE IF in = <<>> THEN FALSE
    ELSE \/ IsSubsequence(Head(out), Head(in)) /\ FramesEmbed(Tail(out), Tail(in))
         \/ FramesEmbed(out, Tail(in))

\* the buffers the state offers as inputs of the filter
FilterInputs(c) ==
    {c.geolocBuffer, c.bufferRead, <<c.pl.rx_info>>,
     Append(c.geolocBuffer, c.pl.rx_info), <<c.pl.rx_info>> \o c.geolocBuffer}

C33_FilterMatchesReference ==
    \A p \in Procs :
        /\ \A buffer \in FilterInputs(call[p]) : \A m \in 0..MaxPerFrame :
              LET out == filterOnFineTimestamp(buffer, m) IN
              /\ out = RefFilter(buffer, m)
              /\ FramesEmbed(out, buffer)
              /\ \A i \in 1..Len(out) :
                     /\ Len(out[i]) >= m
                     /\ \A j \in 1..Len(out[i]) : out[i][j].fine_timestamp
              /\ filterOnFineTimestamp(out, m) = out
        /\ TDOAReached(call[p])
              => call[p].geolocBuffer = OwnBuffer(call[p])

\* the TDOA stage filtered a buffer of two frames: one frame lost a reception,
\* the other was dropped, and a short frame arriving next would be dropped too
C33_Witness ==
    \E p \in Procs :
        LET c == call[p] IN
        /\ TDOAReached(c)
        /\ Len(c.geolocBuffer) = 2
        /\ Len(filterOnFineTimestamp(c.geolocBuffer, 3)) = 1
        /\ filterOnFineTimestamp(c.geolocBuffer, 3)[1] \notin
               {c.geolocBuffer[i] : i \in 1..2}
        /\ filterOnFineTimestamp(c.geolocBuffer, 2) # filterOnFineTimestamp(c.geolocBuffer, 3)

(***************************************************************************)
(* C34 - The buffer update is committed before the resolver is consulted   *)
(* and never undone: from the save of a call on, through its request and   *)
(* also after a request that failed or answered no-location, the entry of  *)
(* the device holds the frames the call read followed by the frame of the  *)
(* uplink (when it has at least 3 receptions), until its lifetime ends.    *)
(***************************************************************************)
Saved(c) == "save" \in IoOf(c) /\ ~c.storeFailed

C34_BufferUpdateNeverUndone ==
    \A p \in Procs :
        LET c == call[p] IN
        Saved(c) =>
            \/ store[c.pl.dev_eui].frames = OwnBuffer(c)
            \/ /\ store[c.pl.dev_eui].frames = <<>>
               /\ store[c.pl.dev_eui].ttl = 0
               /\ store[c.pl.dev_eui].expired \/ config.GeolocationBufferTTL = 0

\* a call that read one frame, saved two, got an error or no location from the
\* resolver and has returned: the entry still holds both frames
C34_Witness ==
    \E p \in Procs :
        LET c == call[p] IN
        /\ c.pc = "done"
        /\ Saved(c)
        /\ c.responses \in {<<"error">>, <<"no_location">>}
        /\ Len(c.bufferRead) = 1
        /\ Len(c.pl.rx_info) >= 3
        /\ store[c.pl.dev_eui].frames = Append(c.bufferRead, c.pl.rx_info)

(***************************************************************************)
(* C35 - HandleUplinkEvent is not idempotent on the buffer: a call for an  *)
(* uplink of at least 3 receptions whose frame is in the buffer already    *)
(* (the uplink was delivered before, within the lifetime of the buffer)    *)
(* appends the frame once more; the buffer saved holds it one more time    *)
(* than the buffer read, and the RSSI or TDOA request of the call and the  *)
(* uplink_ids of its LocationEvent hold its receptions as many times as    *)
(* the buffer holds the frame.                                             *)
(***************************************************************************)
CountFrame(buffer, frame) ==
    Cardinality({i \in 1..Len(buffer) : buffer[i] = frame})

CountId(ids, id) == Cardinality({i \in 1..Len(ids) : ids[i] = id})

\* how often the request of strategy s holds reception j of the frame rx that
\* the buffer holds n times
TimesSent(s, rx, j, n) ==
    IF s = "RSSI" THEN n
    ELSE IF rx[j].fine_timestamp /\ Len(fineTimestamped(rx, 1)) >= 3 THEN n
    ELSE 0

C35_RedeliveryAppendsAgain ==
    \A p \in Procs :
        LET c == call[p]
            rx == c.pl.rx_info
            n == CountFrame(c.bufferRead, rx) + 1
        IN Len(rx) >= 3 /\ "get" \in IoOf(c) /\ ~(c.storeFailed /\ c.io = <<"get">>) =>
            /\ CountFrame(c.geolocBuffer, rx) = n
            /\ Saved(c) /\ store[c.pl.dev_eui].ttl > 0
                  => CountFrame(store[c.pl.dev_eui].frames, rx) = n
            /\ \A i \in 1..Len(c.requests) :
                  StrategyOf(c.requests[i]) \in {"TDOA", "RSSI"} =>
                      \A j \in 1..Len(rx) :
                          CountId(FlatIds(c.requests[i].lorawan), rx[j].uplink_id)
                              = TimesSent(StrategyOf(c.requests[i]), rx, j, n)
            /\ \A i \in 1..Len(c.events) :
                  c.events[i].event.uplink_ids # <<>> =>
                      \A j \in 1..Len(rx) :
                          CountId(c.events[i].event.uplink_ids, rx[j].uplink_id)
                              = TimesSent(StrategyOf(c.requests[Len(c.requests)]),
                                          rx, j, n)

\* the uplink was delivered before: the buffer read holds its frame, the entry
\* saved holds it twice, and the event of the RSSI request names every
\* reception of the uplink twice
C35_Witness ==
    \E p \in Procs :
        LET c == call[p] IN
        /\ c.pc = "done"
        /\ Len(c.pl.rx_info) >= 3
        /\ c.bufferRead = <<c.pl.rx_info>>
        /\ store[c.pl.dev_eui].frames = <<c.pl.rx_info, c.pl.rx_info>>
        /\ c.events # <<>>
        /\ StrategyOf(c.requests[1]) = "RSSI"
        /\ Len(c.events[1].event.uplink_ids) = 2 * Len(c.pl.rx_info)

(***************************************************************************)
(* C36 - The module never trims or clears the buffer: every read takes the *)
(* whole entry of the device, the save of a call for an uplink of at least *)
(* 3 receptions writes all frames read followed by the frame of the        *)
(* uplink, one frame more than it read, and no other step of a call, also  *)
(* of one that produces a LocationEvent, changes the frames of an entry;   *)
(* frames leave the buffer only when the lifetime of the entry ends.       *)
(***************************************************************************)
\* the step is the end of the lifetime of the entry of d
ExpiryStep(d) ==
    /\ call' = call
    /\ store[d].ttl = 1
    /\ store'[d] = ExpiredEntry

\* the step is the save of a call for device d
GrowingSaveStep(d) ==
    \E p \in Procs :
        /\ call[p].pc = "save" /\ call'[p].pc = "geoloc"
        /\ call[p].pl.dev_eui = d
        /\ store'[d].frames = OwnBuffer(call[p])
        /\ Len(call[p].pl.rx_info) >= 3
              => Len(store'[d].frames) = Len(call[p].bufferRead) + 1

WholeReadStep(p) ==
    call[p].pc = "read" /\ call'[p].pc # "read" /\ ~call'[p].storeFailed
        => call'[p].bufferRead = store[call[p].pl.dev_eui].frames

C36_Step ==
    /\ \A d \in Devices :
          store'[d].frames # store[d].frames => ExpiryStep(d) \/ GrowingSaveStep(d)
    /\ \A p \in Procs : WholeReadStep(p)

C36_NeverTrimmed == [][C36_Step]_vars

\* after a call that produced a LocationEvent the entry holds one frame more
\* than the call read, as many as the buffers explored may hold
C36_Witness ==
    \E p \in Procs :
        LET c == call[p] IN
        /\ c.pc = "done"
        /\ c.events # <<>>
        /\ Len(c.pl.rx_info) >= 3
        /\ Len(c.bufferRead) = MaxBufferLen - 1
        /\ Len(store[c.pl.dev_eui].frames) = MaxBufferLen

(***************************************************************************)
(* C37 - Any uplink keeps a non-empty buffer alive: a call that reads a    *)
(* non-empty buffer saves it, also when its uplink has fewer than 3        *)
(* receptions, and the save gives the entry the full configured lifetime   *)
(* again; an entry loses its frames only in the step that ends a lifetime  *)
(* during which no call saved it.  So a frame older than the configured    *)
(* lifetime can still be read and sent in a request.                       *)
(***************************************************************************)
C37_Step ==
    /\ \A p \in Procs :
          /\ (/\ call[p].pc = "read" /\ call'[p].pc # "read"
              /\ ~call'[p].storeFailed
              /\ store[call[p].pl.dev_eui].frames # <<>>)
                => /\ call'[p].pc = "save"
                   /\ call'[p].geolocBuffer # <<>>
          /\ (call[p].pc = "save" /\ call'[p].pc = "geoloc")
                => /\ store'[call[p].pl.dev_eui].ttl = config.GeolocationBufferTTL
                   /\ store'[call[p].pl.dev_eui].frames = call[p].geolocBuffer
    /\ \A d \in Devices :
          store[d].frames # <<>> /\ store'[d].frames = <<>>
              => call' = call /\ store[d].ttl = 1

C37_AnyUplinkKeepsBufferAlive == [][C37_Step]_vars

\* an uplink of 2 receptions reads and saves a frame that is older than the
\* configured lifetime, and the frame is sent in its request
C37_Witness ==
    \E p \in Procs :
        LET c == call[p] IN
        /\ c.pc = "resolver"
        /\ Len(c.pl.rx_info) = 2
        /\ Saved(c)
        /\ store[c.pl.dev_eui].ttl > 0
        /\ store[c.pl.dev_eui].age > config.GeolocationBufferTTL
        /\ c.requests[1].lorawan = store[c.pl.dev_eui].frames

(***************************************************************************)
(* C38 - Qualification looks at the buffer, not at the triggering uplink:  *)
(* when the RSSI strategy is reached by a call for an uplink with fewer    *)
(* than 3 receptions and the frames read from the buffer meet the minimum, *)
(* an RSSI request is made of exactly those frames; when the TDOA strategy *)
(* is reached by a call for an uplink with fewer than 3 fine-timestamped   *)
(* receptions and the filtered frames read meet the minimum, a TDOA        *)
(* request is made of exactly those.  The request and the uplink_ids of    *)
(* the event then hold no reception of the triggering uplink, and the      *)
(* event has the identity fields of that uplink and f_cnt = 0.             *)
(***************************************************************************)
IdsOf(rxInfo) == {rxInfo[j].uplink_id : j \in 1..Len(rxInfo)}

SeqToSet(ids) == {ids[i] : i \in 1..Len(ids)}

\* the call made one request, of strategy s and of the frames given, and
\* neither it nor the events name a reception of the uplink of the call
BufferOnlyRequest(c, s, frames) ==
    /\ Len(c.requests) = 1
    /\ StrategyOf(c.requests[1]) = s
    /\ c.requests[1].lorawan = frames
    /\ SeqToSet(FlatIds(c.requests[1].lorawan)) \cap IdsOf(c.pl.rx_info) = {}
    /\ \A i \in 1..Len(c.events) :
          LET ev == c.events[i].event IN
          /\ ev.uplink_ids = FlatIds(frames)
          /\ SeqToSet(ev.uplink_ids) \cap IdsOf(c.pl.rx_info) = {}
          /\ ev.f_cnt = 0
          /\ ev.dev_eui = c.pl.dev_eui
          /\ ev.application_id = c.pl.identity.application_id
          /\ ev.application_name = c.pl.identity.application_name
          /\ ev.device_name = c.pl.identity.device_name
          /\ ev.tags = c.pl.identity.tags

MeetsMinimum(frames) ==
    Len(frames) >= Max(1, config.GeolocationMinBufferSize)

C38_QualificationLooksAtBuffer ==
    \A p \in Procs :
        LET c == call[p] IN
        /\ (/\ RSSIReached(c)
            /\ ~TDOAAttempted(c)
            /\ Len(c.pl.rx_info) < 3
            /\ MeetsMinimum(c.bufferRead))
              => BufferOnlyRequest(c, "RSSI", c.bufferRead)
        /\ (/\ TDOAReached(c)
            /\ Len(RefFilter(<<c.pl.rx_info>>, 3)) = 0
            /\ MeetsMinimum(RefFilter(c.bufferRead, 3)))
              => BufferOnlyRequest(c, "TDOA", RefFilter(c.bufferRead, 3))

\* an uplink of 3 receptions, 2 of them fine-timestamped, was appended to a
\* buffer of one frame; the TDOA request and the event are made of the frame
\* buffered before, and the event has the tags of the uplink
C38_Witness ==
    \E p \in Procs :
        LET c == call[p] IN
        /\ c.pc = "done"
        /\ c.events # <<>>
        /\ Attempted(c) = <<"TDOA">>
        /\ Len(c.pl.rx_info) = 3
        /\ Len(c.geolocBuffer) = 2
        /\ c.requests[1].lorawan = RefFilter(c.bufferRead, 3)
        /\ c.events[1].event.f_cnt = 0 /\ c.pl.f_cnt # 0
        /\ SeqToSet(c.events[1].event.uplink_ids) \cap IdsOf(c.pl.rx_info) = {}

(***************************************************************************)
(* C39 - Lost update under concurrency is bounded: of two interleaved      *)
(* calls for one device, both for uplinks of at least 3 receptions and     *)
(* with no expiry, the one that saves first writes the initial buffer      *)
(* followed by its frame, and the one that saves last leaves the initial   *)
(* buffer followed by both frames (when it read after the first save) or   *)
(* by its own frame only (when it read before).  The frame of the last     *)
(* saver is there, no frame is there twice, the initial frames are there   *)
(* in their order, and no later step of either call changes the buffer.    *)
(***************************************************************************)
NoFrameTwice(frames) ==
    \A i, j \in 1..Len(frames) : i # j => frames[i] # frames[j]

IsPrefix(a, b) == Len(a) <= Len(b) /\ SubSeq(b, 1, Len(a)) = a

\* p saves after q saved: q, the first to save, read the initial buffer
LastSaveStep(p, q) ==
    (/\ call[p].pc = "save" /\ call'[p].pc = "geoloc"
     /\ Saved(call[q]))
        => LET initial == call[q].bufferRead
               fp == call[p].pl.rx_info
               fq == call[q].pl.rx_info
               final == store'["dev_a"].frames
           IN /\ final \in {initial \o <<fq, fp>>, initial \o <<fp>>}
              /\ final = initial \o <<fq, fp>> <=> call[p].bufferRead = initial \o <<fq>>
              /\ final[Len(final)] = fp
              /\ NoFrameTwice(final)
              /\ IsPrefix(initial, final)

FirstSaveStep(p, q) ==
    (/\ call[p].pc = "save" /\ call'[p].pc = "geoloc"
     /\ ~Saved(call[q]))
        => store'["dev_a"].frames = Append(store["dev_a"].frames, call[p].pl.rx_info)

C39_Step ==
    /\ \A p, q \in Procs : p # q => LastSaveStep(p, q) /\ FirstSaveStep(p, q)
    /\ (\A p \in Procs : call[p].pc = "save" => call'[p].pc = "save")
          => store' = store

C39_LostUpdateBounded == [][C39_Step]_vars

\* both calls read the one frame buffered before them, both saved and
\* returned: the buffer holds that frame and the frame of one call only
C39_Witness ==
    \E p, q \in Procs :
        /\ p # q
        /\ call[p].pc = "done" /\ call[q].pc = "done"
        /\ Saved(call[p]) /\ Saved(call[q])
        /\ Len(call[p].bufferRead) = 1
        /\ call[q].bufferRead = call[p].bufferRead
        /\ store["dev_a"].frames = Append(call[p].bufferRead, call[p].pl.rx_info)

(***************************************************************************)
(* C40 - Termination: when every store operation, the resolver request and *)
(* the sink call return, every call that has begun returns; it makes at    *)
(* most one buffer read, one buffer write, one resolver request and one    *)
(* sink call, and it returns with exactly one of the outcomes error,       *)
(* success without event, success with one event.                          *)
(***************************************************************************)
CountIo(c, x) == Cardinality({i \in 1..Len(c.io) : c.io[i] = x})

Outcomes(c) ==
    {o \in {"error", "success without event", "success with one event"} :
        \/ o = "error" /\ c.ret = "error" /\ c.events = <<>>
        \/ o = "success without event" /\ c.ret = "nil" /\ c.events = <<>>
        \/ o = "success with one event" /\ c.ret = "nil" /\ Len(c.events) = 1}

C40_AtMostOnceEach ==
    \A p \in Procs :
        /\ \A x \in {"get", "save", "request", "sink"} : CountIo(call[p], x) <= 1
        /\ Len(call[p].requests) = CountIo(call[p], "request")
        /\ Len(call[p].events) = CountIo(call[p], "sink")
        /\ call[p].pc = "done" <=> call[p].ret # "none"
        /\ call[p].pc = "done" => Cardinality(Outcomes(call[p])) = 1

C40_Termination ==
    /\ []C40_AtMostOnceEach
    /\ \A p \in Procs : (call[p].pc # "idle") ~> (call[p].pc = "done")

\* a call that returned success with one event after one read, one write,
\* one request and one sink call, the sink call having failed
C40_Witness ==
    /\ call[1].pc = "done"
    /\ Outcomes(call[1]) = {"success with one event"}
    /\ Len(call[1].io) = 4
    /\ call[1].events[1].err

=============================================================================
